---------------------------- MODULE Spec2Model ----------------------------
(***************************************************************************)
(* A model of plenoptic's Steerable_Pyramid_Freq                           *)
(* (src/plenoptic/simulate/canonical_computations/steerable_pyramid_freq.py)*)
(*                                                                         *)
(* One pyramid instance is modelled: its constructor, forward and          *)
(* recon_pyr.  Tensors are modelled by their shape, their dtype (real or   *)
(* complex) and the exact value of their centred spectrum at a finite set  *)
(* of sample frequencies (see "sample frequencies" below).                 *)
(*                                                                         *)
(* Python values of mixed type are encoded uniformly:                      *)
(*   a scale identifier  0, 1, ..              is  <<"int", i>>            *)
(*                       'residual_highpass'   is  <<"residual_highpass",0>>*)
(*   a coefficient key   (s, b)                is  <<"band", s, b>>        *)
(*                       'residual_lowpass'    is  <<"residual_lowpass",0,0>>*)
(*   height              'auto' | int          is  <<"auto",0>> | <<"int",h>>*)
(***************************************************************************)
EXTENDS Integers, Sequences, FiniteSets, TLC

VARIABLES
    pc,         \* "new": not constructed; "built"; "failed": __init__ raised
    args,       \* the constructor's arguments
    self,       \* the instance's attributes (meaningful when pc = "built")
    pyr_size,   \* self.pyr_size: ordered dict, a sequence of <<key, shape>>
    call,       \* the most recent call: its name, arguments and outcome
    pyr_coeffs, \* the mapping returned by the most recent successful forward
    x_id        \* the image x that forward was given last (0: none yet)

vars == <<pc, args, self, pyr_size, call, pyr_coeffs, x_id>>

---------------------------------------------------------------------------
(* Bounds of the model *)

\* a scales / levels / bands list has at most this many entries
MaxListLen == 2
\* integers offered as scale and band indices range over -1 .. MaxIndex
MaxIndex == 2

---------------------------------------------------------------------------
(* Arithmetic helpers *)

Min(a, b) == IF a <= b THEN a ELSE b
Max(a, b) == IF a >= b THEN a ELSE b

\* np.ceil(a / b) for b > 0
CeilDiv(a, b) == -((-a) \div b)

RECURSIVE Log2Floor(_)
\* np.floor(np.log2(n)) for n >= 1
Log2Floor(n) == IF n <= 1 THEN 0 ELSE 1 + Log2Floor(n \div 2)

\* the sequences over S of length at most n that repeat no entry
ListsUpTo(S, n) ==
    {l \in UNION {[1..k -> S] : k \in 0..n} :
        \A i, j \in DOMAIN l : l[i] = l[j] => i = j}

Range(f) == {f[i] : i \in DOMAIN f}

\* a function or sequence written out as the table of its values
Tabulate(f) == f @@ <<>>

---------------------------------------------------------------------------
(* Keys and scale identifiers *)

IntId(i) == <<"int", i>>
ResidualHighpassId == <<"residual_highpass", 0>>
ResidualLowpassId == <<"residual_lowpass", 0>>

BandKey(s, b) == <<"band", s, b>>
ResidualHighpass == <<"residual_highpass", 0, 0>>
ResidualLowpass == <<"residual_lowpass", 0, 0>>

IsInt(id) == id[1] = "int"


---------------------------------------------------------------------------
(* Python list slicing: the number of entries of a[lo:hi] for len(a) = d *)

PyIndex(i, d) == IF i < 0 THEN Max(i + d, 0) ELSE Min(i, d)
PySliceLen(d, lo, hi) == Max(PyIndex(hi, d) - PyIndex(lo, d), 0)

---------------------------------------------------------------------------
(* __init__ *)

\* a bound that would be taken from the longer side
MaxHtOfMax(image_shape) == Log2Floor(Max(image_shape[1], image_shape[2])) - 2

\* max_ht = np.floor(np.log2(min(image_shape))) - 2
MaxHt(image_shape) == Log2Floor(Min(image_shape[1], image_shape[2])) - 2

\* a comparison that would also turn away height = max_ht
HeightTooLargeInclusive(height, image_shape) ==
    height[1] = "int" /\ height[2] >= MaxHt(image_shape)

\* height > max_ht raises; 'auto' is never compared
HeightTooLarge(height, image_shape) ==
    height[1] = "int" /\ height[2] > MaxHt(image_shape)

NumScales(height, image_shape) ==
    IF height[1] = "auto" THEN MaxHt(image_shape) ELSE height[2]

\* a truncation that would mind the upper end only
TruncateOrderUpperOnly(order) == Min(order, 15)

\* order outside [1, 15] is truncated (with a warning)
TruncateOrder(order) ==
    IF order > 15 \/ order <= 0 THEN Min(Max(order, 1), 15) ELSE order

\* twidth <= 0 is set to 1 (with a warning)
RepairTwidth(twidth) == IF twidth <= 0 THEN 1 ELSE twidth

\* a crop that would start at the corner of the spectrum
LoStartCorner(d) == 0

\* one axis of the low-pass crop of an axis of length d:
\*   ctr = ceil((d+0.5)/2), lodims = ceil((d-0.5)/2), loctr = ceil((lodims+0.5)/2)
LoStart(d) ==
    LET ctr    == CeilDiv(2 * d + 1, 4)
        lodims == CeilDiv(2 * d - 1, 4)
        loctr  == CeilDiv(2 * lodims + 1, 4)
    IN  ctr - loctr

\* an end that would keep floor(d/2) entries
LoEndFloor(d) == LoStart(d) + (d \div 2)

LoEnd(d) == LoStart(d) + CeilDiv(2 * d - 1, 4)

\* the shape of a[lostart[0]:loend[0], lostart[1]:loend[1]]
CropShape(shape, idx) ==
    <<PySliceLen(shape[1], idx.lostart[1], idx.loend[1]),
      PySliceLen(shape[2], idx.lostart[2], idx.loend[2])>>

\* the entry appended to _loindices for a low-pass spectrum of shape dims
LoIndex(dims, downsample, image_shape) ==
    IF downsample
    THEN [lostart |-> <<LoStart(dims[1]), LoStart(dims[2])>>,
          loend   |-> <<LoEnd(dims[1]), LoEnd(dims[2])>>]
    ELSE [lostart |-> <<0, 0>>, loend |-> image_shape]

RECURSIVE LoDimsFloor(_, _, _)
\* shapes that would be halved rounding down
LoDimsFloor(i, image_shape, downsample) ==
    IF i <= 0 THEN image_shape
    ELSE LET dims == LoDimsFloor(i - 1, image_shape, downsample)
         IN  IF downsample THEN <<dims[1] \div 2, dims[2] \div 2>> ELSE dims

RECURSIVE LoDims(_, _, _)
\* the shape of lodft when iteration i of "for i in range(num_scales)" starts
\* (i = num_scales: when the loop has ended)
LoDims(i, image_shape, downsample) ==
    IF i <= 0 THEN image_shape
    ELSE LET dims == LoDims(i - 1, image_shape, downsample)
         IN  IF downsample
             THEN CropShape(dims, LoIndex(dims, downsample, image_shape))
             ELSE dims

\* torch.tensor(mask).unsqueeze(0) of a numpy float64 array; shift is the
\* number of octaves Xrcos was shifted down by when the mask was built
Mask(shape, shift) ==
    [shape |-> shape, shift |-> shift, dtype |-> "float64", device |-> "cpu"]

\* self.scales: coarse to fine
ScalesAttr(num_scales) ==
    <<ResidualLowpassId>>
    \o Tabulate([k \in 1..Max(num_scales, 0) |-> IntId(num_scales - k)])
    \o <<ResidualHighpassId>>

\* the target of a to(...): a dtype, a device, or both ("keep": not given)
ToDtype(dtype) == [dtype |-> dtype, device |-> "keep"]
ToDevice(device) == [dtype |-> "keep", device |-> device]

\* one mask moved/cast by Tensor.to
MaskTo(m, target) ==
    [m EXCEPT !.dtype = IF target.dtype = "keep" THEN @ ELSE target.dtype,
              !.device = IF target.device = "keep" THEN @ ELSE target.device]

\* a list of masks moved/cast
MasksTo(ms, target) == Tabulate([i \in DOMAIN ms |-> MaskTo(ms[i], target)])

\* a to that would leave the masks of the reconstruction where they are
ToForwardMasksOnly(obj, target) ==
    [obj EXCEPT
        !.lo0mask = MaskTo(@, target),
        !.hi0mask = MaskTo(@, target),
        !._himasks = MasksTo(@, target),
        !._lomasks = MasksTo(@, target),
        !._anglemasks = Tabulate([i \in DOMAIN @ |-> MasksTo(@[i], target)])]

\* Steerable_Pyramid_Freq.to: every mask list is rebuilt from moved masks
To(obj, target) ==
    [obj EXCEPT
        !.lo0mask = MaskTo(@, target),
        !.hi0mask = MaskTo(@, target),
        !._himasks = MasksTo(@, target),
        !._lomasks = MasksTo(@, target),
        !._anglemasks = Tabulate([i \in DOMAIN @ |-> MasksTo(@[i], target)]),
        !._anglemasks_recon = Tabulate([i \in DOMAIN @ |-> MasksTo(@[i], target)])]

\* self.angle, self.log_rad: numpy grids over the image's frequencies; their
\* values at the samples are AngleIdx and HalfOctaves
PolarGrid(shape) == [shape |-> shape]

\* the attributes __init__ leaves on the instance; list index i+1 here is
\* Python's index i
NewPyramid(a) ==
    LET order == TruncateOrder(a.order)
        n     == NumScales(a.height, a.image_shape)
        no    == order + 1
        dims(i) == LoDims(i, a.image_shape, a.downsample)
    IN  To([order            |-> order,
            image_shape      |-> a.image_shape,
            is_complex       |-> a.is_complex,
            downsample       |-> a.downsample,
            fft_norm         |-> IF a.tight_frame THEN "ortho" ELSE "backward",
            num_scales       |-> n,
            num_orientations |-> no,
            twidth           |-> RepairTwidth(a.twidth),
            scales           |-> ScalesAttr(n),
            lo0mask          |-> Mask(a.image_shape, 0),
            hi0mask          |-> Mask(a.image_shape, 0),
            _himasks         |-> Tabulate([i \in 1..n |-> Mask(dims(i - 1), i)]),
            _anglemasks      |->
                Tabulate([i \in 1..n |->
                    Tabulate([b \in 1..no |-> Mask(dims(i - 1), 0)])]),
            _anglemasks_recon |->
                Tabulate([i \in 1..n |->
                    Tabulate([b \in 1..no |-> Mask(dims(i - 1), 0)])]),
            _lomasks         |-> Tabulate([i \in 1..n |-> Mask(dims(i), i)]),
            _loindices       |->
                Tabulate([i \in 1..n |->
                    LoIndex(dims(i - 1), a.downsample, a.image_shape)]),
            angle            |-> PolarGrid(a.image_shape),
            log_rad          |-> PolarGrid(a.image_shape)],
           ToDtype("float32"))

---------------------------------------------------------------------------
(* Exact numbers.  A value is (re + i*im) * sqrt(rad) / den with integers   *)
(* re, im, den > 0 and rad > 0 squarefree, in lowest terms; every mask      *)
(* value and every scale factor met at the sample frequencies has this      *)
(* form.  NotExact (den = 0) stands for a number that has not.              *)

Abs(a) == IF a < 0 THEN -a ELSE a

RECURSIVE Gcd(_, _)
Gcd(a, b) == IF b = 0 THEN a ELSE Gcd(b, a % b)

RECURSIVE SqPart(_, _)
\* the largest s with s*s dividing n, searching divisors from d on
SqPart(n, d) ==
    IF d * d > n THEN 1
    ELSE IF n % (d * d) = 0 THEN d * SqPart(n \div (d * d), d)
    ELSE SqPart(n, d + 1)

Zero == [re |-> 0, im |-> 0, den |-> 1, rad |-> 1]
One == [re |-> 1, im |-> 0, den |-> 1, rad |-> 1]
NotExact == [re |-> 0, im |-> 0, den |-> 0, rad |-> 0]

Norm(re, im, den, rad) ==
    IF re = 0 /\ im = 0 THEN Zero
    ELSE LET s == SqPart(rad, 2)
             g == Gcd(Gcd(Abs(re * s), Abs(im * s)), den)
         IN  [re |-> (re * s) \div g, im |-> (im * s) \div g,
              den |-> den \div g, rad |-> rad \div (s * s)]

\* the real number p * sqrt(k) / q
Real(p, q, k) == Norm(p, 0, q, k)

\* sqrt(p / q) for integers p >= 0, q > 0
Sqrt(p, q) ==
    LET g == Gcd(p, q) IN
    IF p = 0 THEN Zero ELSE Norm(1, 0, q \div g, (p \div g) * (q \div g))

VMul(u, v) ==
    IF u.den = 0 \/ v.den = 0 THEN NotExact
    ELSE IF u = Zero \/ v = Zero THEN Zero
    ELSE IF u = One THEN v
    ELSE IF v = One THEN u
    ELSE Norm(u.re * v.re - u.im * v.im, u.re * v.im + u.im * v.re,
              u.den * v.den, u.rad * v.rad)

VAdd(u, v) ==
    IF u.den = 0 \/ v.den = 0 THEN NotExact
    ELSE IF u = Zero THEN v
    ELSE IF v = Zero THEN u
    ELSE IF u.rad # v.rad THEN NotExact
    ELSE Norm(u.re * v.den + v.re * u.den, u.im * v.den + v.im * u.den,
              u.den * v.den, u.rad)

VConj(v) == [v EXCEPT !.im = -v.im]
VRe(v) == IF v.den = 0 THEN NotExact ELSE Norm(v.re, 0, v.den, v.rad)
VNeg(v) == [v EXCEPT !.re = -v.re, !.im = -v.im]

\* |v|^2, a rational
VAbs2(v) ==
    IF v.den = 0 THEN NotExact
    ELSE Norm((v.re * v.re + v.im * v.im) * v.rad, 0, v.den * v.den, 1)

RECURSIVE VPow(_, _)
VPow(v, k) == IF k <= 0 THEN One ELSE VMul(v, VPow(v, k - 1))

\* np.power(np.complex(0, 1), k)
IPow(k) == VPow([re |-> 0, im |-> 1, den |-> 1, rad |-> 1], k)
\* np.power(np.complex(0, -1), k)
MinusIPow(k) == VPow([re |-> 0, im |-> -1, den |-> 1, rad |-> 1], k)

RECURSIVE Factorial(_)
Factorial(k) == IF k <= 1 THEN 1 ELSE k * Factorial(k - 1)

RECURSIVE Pow2(_)
Pow2(k) == IF k <= 0 THEN 1 ELSE 2 * Pow2(k - 1)

---------------------------------------------------------------------------
(* Sample frequencies.  A tensor's value is tracked at a few frequencies    *)
(* of the grid xramp, yramp = linspace(-1, 1, d+1)[:-1] where every mask    *)
(* has an exact value:                                                      *)
(*   dc    (x, y) = (0, 0)                                                  *)
(*   nyq   (x, y) = (-1, 0)                                                 *)
(*   diag  (x, y) = (+-2^-m, +-2^-m)     radius 2^-(m - 1/2)                *)
(* (neg: the minus signs).  They are on the grid when the shape is even and *)
(* divisible by 2^(m+1).                                                    *)

Dc == [kind |-> "dc", m |-> 0, neg |-> FALSE]
Nyq == [kind |-> "nyq", m |-> 0, neg |-> TRUE]

AllSamples(maxm) ==
    {Dc, Nyq} \cup
    [kind : {"diag"}, m : 1..maxm, neg : BOOLEAN]

OnGrid(q, shape) ==
    /\ shape[1] % 2 = 0 /\ shape[2] % 2 = 0
    /\ q.kind = "diag" => /\ shape[1] % Pow2(q.m + 1) = 0
                          /\ shape[2] % Pow2(q.m + 1) = 0

\* (row, column) of the sample in the centred full-size spectrum
Index0(q, shape) ==
    LET cy == shape[1] \div 2
        cx == shape[2] \div 2
        sg == IF q.neg THEN -1 ELSE 1
    IN  CASE q.kind = "dc"   -> <<cy, cx>>
          [] q.kind = "nyq"  -> <<cy, 0>>
          [] q.kind = "diag" -> <<cy + sg * (shape[1] \div Pow2(q.m + 1)),
                                  cx + sg * (shape[2] \div Pow2(q.m + 1))>>

\* -2 * log_rad at the sample (log_rad in half octaves below radius 1).  The
\* centre takes the radius of its left neighbour, 2/W; for W not a power of
\* two this rounds towards radius 1, inside the same flat part of every mask.
HalfOctaves(q, shape) ==
    CASE q.kind = "dc"   -> 2 * (Log2Floor(shape[2]) - 1)
      [] q.kind = "nyq"  -> 0
      [] q.kind = "diag" -> 2 * q.m - 1

\* self.angle = arctan2(yramp, xramp) at the sample, in units of pi/4
AngleIdx(q) ==
    CASE q.kind = "dc"   -> 0
      [] q.kind = "nyq"  -> 4
      [] q.kind = "diag" -> IF q.neg THEN 5 ELSE 1

\* the configurations whose masks are exact at the samples
Exact(obj) == obj.twidth = 1 /\ obj.order \in {1, 3}

Samples(obj) ==
    IF Exact(obj)
    THEN {q \in AllSamples(Max(obj.num_scales, 0) + 1) :
              OnGrid(q, obj.image_shape)}
    ELSE {}

Absent == <<-1, -1>>

RECURSIVE PosAt(_, _, _)
\* (row, column) of sample q after the crops of scales 0 .. level-1, or Absent
PosAt(q, level, obj) ==
    IF level <= 0 THEN Index0(q, obj.image_shape)
    ELSE LET p   == PosAt(q, level - 1, obj)
             idx == obj._loindices[level]
         IN  IF /\ p # Absent
                /\ idx.lostart[1] <= p[1] /\ p[1] < idx.loend[1]
                /\ idx.lostart[2] <= p[2] /\ p[2] < idx.loend[2]
             THEN <<p[1] - idx.lostart[1], p[2] - idx.lostart[2]>>
             ELSE Absent

\* the samples a tensor of the given level holds
SamplesAt(level, obj) == {q \in Samples(obj) : PosAt(q, level, obj) # Absent}

\* the sample at the opposite frequency
Conjugate(q) == IF q.kind \in {"dc", "nyq"} THEN q ELSE [q EXCEPT !.neg = ~@]

\* the index holding the conjugate frequency in a centred spectrum
MirrorPos(p, shape) ==
    <<(2 * (shape[1] \div 2) - p[1] + shape[1]) % shape[1],
      (2 * (shape[2] \div 2) - p[2] + shape[2]) % shape[2]>>

---------------------------------------------------------------------------
(* Mask values at the samples *)

\* rcosFn(twidth = 1, position = -1/2, values = [0, 1]): the raised cosine Y
\* at t2 half octaves above the upper edge of the transition, as <<p, q>>
RcosY(t2) ==
    IF t2 <= -2 THEN <<0, 1>> ELSE IF t2 = -1 THEN <<1, 2>> ELSE <<1, 1>>

\* self.Yrcos = np.sqrt(Yrcos), looked up by pointOp with Xrcos shifted down
\* by shift octaves
Yrcos(r2, shift) ==
    LET y == RcosY(2 * shift - r2) IN Sqrt(y[1], y[2])

\* self.YIrcos = np.sqrt(1.0 - self.Yrcos**2)
YIrcos(r2, shift) ==
    LET y == RcosY(2 * shift - r2) IN Sqrt(y[2] - y[1], y[2])

\* const = 2^(2*order) * order!^2 / (num_orientations * (2*order)!)
SqrtConst(order) ==
    Sqrt(Pow2(2 * order) * Factorial(order) * Factorial(order),
         (order + 1) * Factorial(2 * order))

\* cos(k * pi / 4)
Cos8(k) ==
    CASE k % 8 = 0 -> One
      [] k % 8 \in {1, 7} -> Real(1, 2, 2)
      [] k % 8 \in {2, 6} -> Zero
      [] k % 8 \in {3, 5} -> Real(-1, 2, 2)
      [] k % 8 = 4 -> Real(-1, 1, 1)

\* Ycosn_recon at Xcosn = k * pi / 4
YcosnRecon(order, k) == VMul(SqrtConst(order), VPow(Cos8(k), order))

\* Ycosn_forward at Xcosn = k * pi / 4: one-sided and doubled when complex
YcosnForward(order, is_complex, k) ==
    IF is_complex
    THEN IF k % 8 \in {0, 1, 7}
         THEN VMul(Real(2, 1, 1), YcosnRecon(order, k))
         ELSE Zero
    ELSE YcosnRecon(order, k)

\* Xcosn at which band b's angular mask is looked up for sample q:
\* angle - pi * b / num_orientations, in units of pi/4
BandAngle(q, b, obj) == AngleIdx(q) - b * (4 \div obj.num_orientations) + 8

lo0maskAt(q, obj) == YIrcos(HalfOctaves(q, obj.image_shape), 0)
hi0maskAt(q, obj) == Yrcos(HalfOctaves(q, obj.image_shape), 0)
\* _himasks[i], _lomasks[i], _anglemasks[i][b], _anglemasks_recon[i][b]
\* (i, b: Python's indices)
himaskAt(q, i, obj) ==
    Yrcos(HalfOctaves(q, obj.image_shape), obj._himasks[i + 1].shift)
lomaskAt(q, i, obj) ==
    YIrcos(HalfOctaves(q, obj.image_shape), obj._lomasks[i + 1].shift)
anglemaskAt(q, i, b, obj) ==
    YcosnForward(obj.order, obj.is_complex, BandAngle(q, b, obj))
anglemask_reconAt(q, i, b, obj) == YcosnRecon(obj.order, BandAngle(q, b, obj))

---------------------------------------------------------------------------
(* Tensors.  A tensor is [shape, dtype, level, centred, dft]: its last two  *)
(* dimensions, "real" or "complex", the number of crops behind it, and its  *)
(* value at the samples it holds: dft[q] is the entry at q of its           *)
(* unnormalised Fourier transform (of the tensor itself when it is a        *)
(* spectrum).  centred tells whether a spectrum has its zero frequency in   *)
(* the middle (after fftshift), where the masks have theirs.                *)

MapDft(t, F(_)) == [t EXCEPT !.dft = Tabulate([q \in DOMAIN t.dft |-> F(q)])]

\* fft.fft2(t, norm): "ortho" divides by sqrt(h*w)
fft2(t, norm) ==
    LET c == IF norm = "ortho" THEN Sqrt(1, t.shape[1] * t.shape[2]) ELSE One
        F(q) == VMul(t.dft[q], c)
    IN  [MapDft(t, F) EXCEPT !.dtype = "complex", !.centred = FALSE]

\* fft.ifft2(t, norm): "backward" divides by h*w, "ortho" by sqrt(h*w); the
\* unnormalised transform of the result is t, or t * sqrt(h*w)
ifft2(t, norm) ==
    LET c == IF norm = "ortho" THEN Sqrt(t.shape[1] * t.shape[2], 1) ELSE One
        F(q) == IF t.centred /\ t.dft[q] # Zero THEN NotExact
                ELSE VMul(t.dft[q], c)
    IN  [MapDft(t, F) EXCEPT !.dtype = "complex"]

fftshift(t) == [t EXCEPT !.centred = TRUE]
ifftshift(t) == [t EXCEPT !.centred = FALSE]

\* t * mask for a mask of the given shape with value V(q) at sample q
MulMask(t, mask, V(_)) ==
    LET F(q) == IF mask.shape # t.shape THEN NotExact
                ELSE IF t.dft[q] = Zero THEN Zero
                ELSE IF t.centred THEN VMul(t.dft[q], V(q))
                ELSE NotExact
    IN  MapDft(t, F)

\* c * t for a number c
MulConst(c, t) ==
    LET F(q) == VMul(c, t.dft[q])
    IN  [MapDft(t, F) EXCEPT
            !.dtype = IF c.im # 0 THEN "complex" ELSE t.dtype]

\* t.real of a spatial tensor: at each frequency, half the sum of the entry
\* and the conjugate of the entry at the mirrored frequency
RealOf(t, obj) ==
    LET F(q) ==
            LET p  == PosAt(q, t.level, obj)
                mp == MirrorPos(p, t.shape)
                r  == IF p = mp THEN q ELSE Conjugate(q)
            IN  IF r \notin DOMAIN t.dft \/ PosAt(r, t.level, obj) # mp
                THEN NotExact
                ELSE VMul(Real(1, 2, 1), VAdd(t.dft[q], VConj(t.dft[r])))
    IN  [MapDft(t, F) EXCEPT !.dtype = "real"]

\* t[:, :, lostart[0]:loend[0], lostart[1]:loend[1]] for idx = _loindices[i]
Crop(t, idx, obj) ==
    [shape   |-> CropShape(t.shape, idx),
     dtype   |-> t.dtype,
     level   |-> t.level + 1,
     centred |-> t.centred,
     dft     |-> Tabulate([q \in DOMAIN t.dft \cap SamplesAt(t.level + 1, obj)
                              |-> t.dft[q]])]

\* torch.zeros_like(t)
zeros_like(t) ==
    LET F(q) == Zero IN MapDft(t, F)

\* a + b; the result is complex when either is
AddT(a, b) ==
    LET F(q) == VAdd(a.dft[q], b.dft[q])
    IN  [MapDft(a, F) EXCEPT
            !.dtype = IF "complex" \in {a.dtype, b.dtype}
                      THEN "complex" ELSE "real",
            !.centred = a.centred \/ b.centred]

---------------------------------------------------------------------------
(* Images.  Image id is a real image of the pyramid's image_shape, so its    *)
(* spectrum is real at dc and nyq and conjugate-symmetric elsewhere; no      *)
(* image is symmetric in space, so the spectrum is not real.                 *)

ImageDft(id, q) ==
    IF q.kind \in {"dc", "nyq"}
    THEN Norm(id + 3, 0, 1, 1)
    ELSE Norm(id + q.m, IF q.neg THEN -(id * q.m) ELSE id * q.m, 1, 1)

Image(id, obj) ==
    [shape   |-> obj.image_shape,
     dtype   |-> "real",
     level   |-> 0,
     centred |-> FALSE,
     dft     |-> Tabulate([q \in Samples(obj) |-> ImageDft(id, q)])]

NoPyramid == [num_scales |-> 0]
NoCall == [op |-> "none"]

\* __init__ returns an instance
Construct ==
    /\ pc = "new"
    /\ ~HeightTooLarge(args.height, args.image_shape)
    /\ pc' = "built"
    /\ self' = NewPyramid(args)
    /\ pyr_size' = <<>>
    /\ call' = [op |-> "__init__", raised |-> "none"]
    /\ UNCHANGED <<args, pyr_coeffs, x_id>>

\* __init__ raises "Cannot build pyramid higher than %d levels."
ConstructRaises ==
    /\ pc = "new"
    /\ HeightTooLarge(args.height, args.image_shape)
    /\ pc' = "failed"
    /\ call' = [op |-> "__init__", raised |-> "Exception"]
    /\ UNCHANGED <<args, self, pyr_size, pyr_coeffs, x_id>>

---------------------------------------------------------------------------
(* Ordered dicts: sequences of <<key, value>> in insertion order *)

Keys(d) == Tabulate([i \in DOMAIN d |-> d[i][1]])
KeySet(d) == {d[i][1] : i \in DOMAIN d}
HasKey(d, k) == \E i \in DOMAIN d : d[i][1] = k
Get(d, k) == d[CHOOSE i \in DOMAIN d : d[i][1] = k][2]

\* d[k] = v: an existing key keeps its place
DictSet(d, k, v) ==
    IF HasKey(d, k)
    THEN Tabulate([i \in DOMAIN d |-> IF d[i][1] = k THEN <<k, v>> ELSE d[i]])
    ELSE Append(d, <<k, v>>)

\* a membership test that would look at the first element only
ContainsFirst(seq, e) == seq # <<>> /\ seq[1] = e

\* "e in seq"
Contains(seq, e) == \E i \in DOMAIN seq : seq[i] = e

---------------------------------------------------------------------------
(* forward *)

\* the scales argument: a list of scale identifiers, or something else
ListArg(items) == [list |-> TRUE, items |-> items]
NotAList(items) == [list |-> FALSE, items |-> items]

\* "if not scales: scales = self.scales"
EffectiveScales(obj, sc) == IF sc.items = <<>> THEN obj.scales ELSE sc.items

\* checks that would forget the lower end of the range
ForwardRaisedUpperOnly(obj, sc) ==
    IF ~sc.list THEN "Exception"
    ELSE IF \E j \in DOMAIN sc.items :
                IsInt(sc.items[j]) /\ sc.items[j][2] >= obj.num_scales
         THEN "AssertionError"
         ELSE "none"

\* the checks made before anything is computed
ForwardRaised(obj, sc) ==
    LET scale_ints == {sc.items[i][2] : i \in {j \in DOMAIN sc.items : IsInt(sc.items[j])}}
    IN  IF ~sc.list THEN "Exception"
        ELSE IF /\ scale_ints # {}
                /\ ~(/\ \A i \in scale_ints : i < obj.num_scales
                     /\ \A i \in scale_ints : i >= 0)
             THEN "AssertionError"
             ELSE "none"

\* imdft = fft.fftshift(fft.fft2(x, norm=self.fft_norm))
Imdft(x, obj) == fftshift(fft2(x, obj.fft_norm))

\* lodft = imdft * lo0mask, before the loop over scales
Lodft0(x, obj) ==
    LET V(q) == lo0maskAt(q, obj)
    IN  MulMask(Imdft(x, obj), obj.lo0mask, V)

\* lodft at the end of iteration i of "for i in range(self.num_scales)"
LodftNext(lodft, i, obj) ==
    LET sub  == IF obj.downsample
                THEN Crop(lodft, obj._loindices[i + 1], obj)
                ELSE lodft
        V(q) == lomaskAt(q, i, obj)
    IN  MulMask(sub, obj._lomasks[i + 1], V)

\* pyr_coeffs['residual_highpass']
ForwardHighpass(x, obj) ==
    LET V(q)   == hi0maskAt(q, obj)
        hi0dft == MulMask(Imdft(x, obj), obj.hi0mask, V)
    IN  RealOf(ifft2(ifftshift(hi0dft), obj.fft_norm), obj)

\* a band that would not be divided by sqrt(2) in a complex tight frame
ForwardBandUndivided(i, b, lodft, obj) ==
    LET A(q) == anglemaskAt(q, i, b, obj)
        H(q) == himaskAt(q, i, obj)
        complex_const == MinusIPow(obj.order)
        banddft == MulMask(MulMask(MulConst(complex_const, lodft),
                                   obj._anglemasks[i + 1][b + 1], A),
                           obj._himasks[i + 1], H)
        band == ifft2(ifftshift(banddft), obj.fft_norm)
    IN  IF ~obj.is_complex THEN RealOf(band, obj) ELSE band

\* the factor of "band = band / np.sqrt(2)", or 1 where forward does not
\* divide
ForwardScale(obj) ==
    IF obj.is_complex /\ obj.fft_norm = "ortho" THEN Real(1, 2, 2) ELSE One

\* pyr_coeffs[(i, b)], computed from the lodft iteration i starts with
ForwardBand(i, b, lodft, obj) ==
    LET A(q) == anglemaskAt(q, i, b, obj)
        H(q) == himaskAt(q, i, obj)
        complex_const == MinusIPow(obj.order)
        banddft == MulMask(MulMask(MulConst(complex_const, lodft),
                                   obj._anglemasks[i + 1][b + 1], A),
                           obj._himasks[i + 1], H)
        band == ifft2(ifftshift(banddft), obj.fft_norm)
    IN  IF ~obj.is_complex THEN RealOf(band, obj)
        ELSE MulConst(ForwardScale(obj), band)

\* pyr_coeffs['residual_lowpass'], computed from the lodft the loop ends with
ForwardLowpass(lodft, obj) ==
    RealOf(ifft2(ifftshift(lodft), obj.fft_norm), obj)

RECURSIVE ForwardScales(_, _, _, _)
\* the entries written by iterations i .. num_scales-1 of the loop over
\* scales and by the low-pass step after it; lodft is the loop's variable
ForwardScales(i, lodft, scales, obj) ==
    IF i >= obj.num_scales
    THEN IF Contains(scales, ResidualLowpassId)
         THEN <<<<ResidualLowpass, ForwardLowpass(lodft, obj)>>>> ELSE <<>>
    ELSE (IF Contains(scales, IntId(i))
          THEN Tabulate([b \in 1..obj.num_orientations |->
                    <<BandKey(i, b - 1), ForwardBand(i, b - 1, lodft, obj)>>])
          ELSE <<>>)
         \o ForwardScales(i + 1, LodftNext(lodft, i, obj), scales, obj)

\* a forward that would write the high-pass residual after the loop
ForwardCoeffsHighpassLast(obj, x, sc) ==
    LET scales == EffectiveScales(obj, sc)
    IN  ForwardScales(0, Lodft0(x, obj), scales, obj)
        \o (IF Contains(scales, ResidualHighpassId)
            THEN <<<<ResidualHighpass, ForwardHighpass(x, obj)>>>> ELSE <<>>)

\* the OrderedDict forward returns, in insertion order
ForwardCoeffs(obj, x, sc) ==
    LET scales == EffectiveScales(obj, sc)
    IN  (IF Contains(scales, ResidualHighpassId)
         THEN <<<<ResidualHighpass, ForwardHighpass(x, obj)>>>> ELSE <<>>)
        \o ForwardScales(0, Lodft0(x, obj), scales, obj)

\* a write that would leave the table with its one entry
SizeWriteAlone(size, k, shape) == <<<<k, shape>>>>

\* self.pyr_size[k] = tuple(band.shape[-2:])
SizeWrite(size, k, shape) == DictSet(size, k, shape)

RECURSIVE WriteSizes(_, _, _)
\* the writes to self.pyr_size for the entries from i on
WriteSizes(size, coeffs, i) ==
    IF i > Len(coeffs) THEN size
    ELSE WriteSizes(SizeWrite(size, coeffs[i][1], coeffs[i][2].shape),
                    coeffs, i + 1)

\* a forward that would not record the sizes
ForwardSizesNotWritten(size, coeffs) == size

\* self.pyr_size after forward
ForwardSizes(size, coeffs) == WriteSizes(size, coeffs, 1)

\* the local angle and log_rad when forward's loop ends: cropped once per
\* scale when downsampling
ForwardLocalGrid(obj) ==
    PolarGrid(LoDims(obj.num_scales, obj.image_shape, obj.downsample))

\* a forward that would crop the instance's own grids
ForwardSelfCropped(obj) ==
    [obj EXCEPT !.angle = ForwardLocalGrid(obj),
                !.log_rad = ForwardLocalGrid(obj)]

\* the instance's attributes other than pyr_size after forward: angle and
\* log_rad are copied and the two residual masks cloned before use, and the
\* crops rebind locals
ForwardSelf(obj) == obj

\* forward(x, scales) returns
Forward(id, sc) ==
    /\ pc = "built"
    /\ ForwardRaised(self, sc) = "none"
    /\ LET coeffs == ForwardCoeffs(self, Image(id, self), sc)
       IN  /\ pyr_coeffs' = coeffs
           /\ pyr_size' = ForwardSizes(pyr_size, coeffs)
    /\ self' = ForwardSelf(self)
    /\ x_id' = id
    /\ call' = [op |-> "forward", scales |-> sc, raised |-> "none"]
    /\ UNCHANGED <<pc, args>>

\* forward(x, scales) raises
ForwardRaises(id, sc) ==
    /\ pc = "built"
    /\ ForwardRaised(self, sc) # "none"
    /\ call' = [op |-> "forward", raised |-> ForwardRaised(self, sc)]
    /\ UNCHANGED <<pc, args, self, pyr_size, pyr_coeffs, x_id>>

---------------------------------------------------------------------------
(* recon_pyr *)

\* level identifiers other than ints and the two residual names: a string of
\* digits such as '1', and any other string
DigitsId(i) == <<"digits", i>>
OtherStringId == <<"other", 0>>

\* the levels argument: 'all', one identifier, or a list of identifiers
AllLevels == [kind |-> "all", items |-> <<>>]
SingleLevel(id) == [kind |-> "single", items |-> <<id>>]
ListLevels(items) == [kind |-> "list", items |-> items]
\* the bands argument: 'all' or a list of ints
AllBands == [all |-> TRUE, items |-> <<>>]
ListBands(items) == [all |-> FALSE, items |-> items]

\* a check that would look for the two residuals only
ReconIncompleteResiduals(obj, coeffs) ==
    \/ ~HasKey(coeffs, ResidualHighpass)
    \/ ~HasKey(coeffs, ResidualLowpass)

\* the check that pyr_coeffs holds every scale of self.scales
ReconIncomplete(obj, coeffs) ==
    \E j \in DOMAIN obj.scales :
        LET sid == obj.scales[j]
        IN  IF ~IsInt(sid)
            THEN ~HasKey(coeffs, <<sid[1], 0, 0>>)
            ELSE \E b \in 0..(obj.num_orientations - 1) :
                    ~HasKey(coeffs, BandKey(sid[2], b))

RECURSIVE SortInts(_)
\* list(np.sort(levs_nums)): smallest first, repeats kept
SortInts(seq) ==
    IF seq = <<>> THEN <<>>
    ELSE LET i == CHOOSE i \in DOMAIN seq : \A j \in DOMAIN seq : seq[i] <= seq[j]
         IN  <<seq[i]>> \o
             SortInts([k \in 1..(Len(seq) - 1) |->
                          IF k < i THEN seq[k] ELSE seq[k + 1]])

\* levs_nums: int(i) for the ints and the strings of digits among levels
LevsNums(items) ==
    LET idx == {j \in DOMAIN items : items[j][1] \in {"int", "digits"}}
        RECURSIVE Pick(_)
        Pick(j) == IF j > Len(items) THEN <<>>
                   ELSE (IF j \in idx THEN <<items[j][2]>> ELSE <<>>)
                        \o Pick(j + 1)
    IN  Pick(1)

\* _recon_levels_check: [raised, levels]
ReconLevelsCheck(obj, size, levels) ==
    LET nums == LevsNums(levels.items)
        bad  == \/ \E j \in DOMAIN nums : nums[j] < 0
                \/ \E j \in DOMAIN nums : nums[j] >= obj.num_scales
        levs_tmp == [j \in DOMAIN nums |-> IntId(SortInts(nums)[j])]
        listed ==
            IF levels.kind = "all"
            THEN <<ResidualHighpassId>>
                 \o [k \in 1..Max(obj.num_scales, 0) |-> IntId(k - 1)]
                 \o <<ResidualLowpassId>>
            ELSE (IF Contains(levels.items, ResidualHighpassId)
                  THEN <<ResidualHighpassId>> ELSE <<>>)
                 \o levs_tmp
                 \o (IF Contains(levels.items, ResidualLowpassId)
                     THEN <<ResidualLowpassId>> ELSE <<>>)
        \* levels.pop(-1), then levels.pop(0), by the keys of self.pyr_size
        popped1 ==
            IF ~HasKey(size, ResidualLowpass) /\ Contains(listed, ResidualLowpassId)
            THEN SubSeq(listed, 1, Len(listed) - 1) ELSE listed
        popped2 ==
            IF ~HasKey(size, ResidualHighpass) /\ Contains(popped1, ResidualHighpassId)
            THEN Tail(popped1) ELSE popped1
    IN  IF levels.kind # "all" /\ bad
        THEN [raised |-> "AssertionError", levels |-> <<>>]
        ELSE [raised |-> "none", levels |-> popped2]

\* _recon_bands_check: [raised, bands]
ReconBandsCheck(obj, bands) ==
    IF bands.all
    THEN [raised |-> "none",
          bands |-> [k \in 1..obj.num_orientations |-> k - 1]]
    ELSE IF \/ \E j \in DOMAIN bands.items : bands.items[j] < 0
            \/ \E j \in DOMAIN bands.items :
                   bands.items[j] >= obj.num_orientations
         THEN [raised |-> "AssertionError", bands |-> <<>>]
         ELSE [raised |-> "none", bands |-> bands.items]

RECURSIVE KeysOfLevels(_, _, _)
\* the loop of _recon_keys from entry j of levels on
KeysOfLevels(levels, bands, j) ==
    IF j > Len(levels) THEN <<>>
    ELSE (IF ~IsInt(levels[j])
          THEN <<<<levels[j][1], 0, 0>>>>
          ELSE [k \in DOMAIN bands |-> BandKey(levels[j][2], bands[k])])
         \o KeysOfLevels(levels, bands, j + 1)

\* _recon_keys: [raised, keys]
ReconKeys(obj, size, levels, bands) ==
    LET lv == ReconLevelsCheck(obj, size, levels)
        bd == ReconBandsCheck(obj, bands)
    IN  IF lv.raised # "none" THEN [raised |-> lv.raised, keys |-> <<>>]
        ELSE IF bd.raised # "none" THEN [raised |-> bd.raised, keys |-> <<>>]
        ELSE [raised |-> "none",
              keys |-> KeysOfLevels(lv.levels, bd.bands, 1)]

\* buf[:, :, lostart[0]:loend[0], lostart[1]:loend[1]] = src: the values are
\* cast to buf's dtype, a complex value losing its imaginary part in a real
\* buffer
SetSlice(buf, idx, src) ==
    LET F(q) == IF CropShape(buf.shape, idx) # src.shape THEN NotExact
                ELSE IF q \notin DOMAIN src.dft THEN Zero
                ELSE IF src.dft[q] = Zero THEN Zero
                ELSE IF ~src.centred THEN NotExact
                ELSE IF buf.dtype = "real" THEN VRe(src.dft[q])
                ELSE src.dft[q]
    IN  [MapDft(buf, F) EXCEPT !.centred = TRUE]

\* a factor that would be applied to every complex pyramid
ReconScaleComplex(obj) == IF obj.is_complex THEN Real(1, 1, 2) ELSE One

\* the factor of "coeffs = pyr_coeffs[(scale,b)]*np.sqrt(2)", or 1 where
\* _recon_levels does not multiply
ReconScale(obj) ==
    IF obj.is_complex /\ obj.fft_norm = "ortho" THEN Real(1, 1, 2) ELSE One

RECURSIVE OrientDft(_, _, _, _, _, _)
\* orientdft after the bands b .. num_orientations-1 have been added to acc
OrientDft(acc, b, coeffs, recon_keys, scale, obj) ==
        IF b >= obj.num_orientations THEN acc
        ELSE IF ~Contains(recon_keys, BandKey(scale, b))
        THEN OrientDft(acc, b + 1, coeffs, recon_keys, scale, obj)
        ELSE LET c == Get(coeffs, BandKey(scale, b))
                 cf == MulConst(ReconScale(obj), c)
                 banddft == fftshift(fft2(cf, obj.fft_norm))
                 A(q) == anglemask_reconAt(q, scale, b, obj)
                 H(q) == himaskAt(q, scale, obj)
                 complex_const == IPow(obj.order)
                 term == MulMask(MulMask(MulConst(complex_const, banddft),
                                         obj._anglemasks_recon[scale + 1][b + 1], A),
                                 obj._himasks[scale + 1], H)
             IN  OrientDft(AddT(acc, term), b + 1, coeffs, recon_keys,
                           scale, obj)

RECURSIVE ReconLevels(_, _, _, _)
\* _recon_levels(pyr_coeffs, recon_keys, scale)
ReconLevels(coeffs, recon_keys, scale, obj) ==
    IF scale >= obj.num_scales
    THEN IF Contains(recon_keys, ResidualLowpass)
         THEN fftshift(fft2(Get(coeffs, ResidualLowpass), obj.fft_norm))
         ELSE fft2(zeros_like(Get(coeffs, ResidualLowpass)), obj.fft_norm)
    ELSE LET first == Get(coeffs, BandKey(scale, 0))
             orientdft == OrientDft(zeros_like(first), 0, coeffs, recon_keys,
                                    scale, obj)
             idx == obj._loindices[scale + 1]
             L(q) == lomaskAt(q, scale, obj)
             reslevdft == ReconLevels(coeffs, recon_keys, scale + 1, obj)
             resdft == SetSlice(zeros_like(first), idx,
                                MulMask(reslevdft, obj._lomasks[scale + 1], L))
         IN  AddT(resdft, orientdft)

\* the tensor recon_pyr returns for the keys recon_keys
Reconstruction(coeffs, recon_keys, obj) ==
    LET L0(q) == lo0maskAt(q, obj)
        H0(q) == hi0maskAt(q, obj)
        recondft == ReconLevels(coeffs, recon_keys, 0, obj)
        lopart == MulMask(recondft, obj.lo0mask, L0)
        outdft ==
            IF Contains(recon_keys, ResidualHighpass)
            THEN AddT(lopart,
                      MulMask(fftshift(fft2(Get(coeffs, ResidualHighpass),
                                            obj.fft_norm)),
                              obj.hi0mask, H0))
            ELSE lopart
        reconstruction == ifft2(ifftshift(outdft), obj.fft_norm)
    IN  IF obj.is_complex THEN RealOf(reconstruction, obj)
        ELSE reconstruction

NoTensor == [shape |-> <<0, 0>>, dtype |-> "none", level |-> 0,
             centred |-> FALSE, dft |-> <<>>]

\* the exception recon_pyr(coeffs, levels, bands) raises, or "none"
ReconPyrRaised(obj, size, coeffs, levels, bands) ==
    IF ReconIncomplete(obj, coeffs) THEN "Exception"
    ELSE ReconKeys(obj, size, levels, bands).raised

\* a mapping the caller makes from forward's by deleting entry j (j = 0: none)
Without(coeffs, j) ==
    Tabulate([k \in 1..(Len(coeffs) - (IF j \in DOMAIN coeffs THEN 1 ELSE 0)) |->
                IF j = 0 \/ k < j THEN coeffs[k] ELSE coeffs[k + 1]])

\* "if twidth <= 0: warn; twidth = 1": the local twidth after the repair
ReconTwidth(twidth) == IF twidth <= 0 THEN 1 ELSE twidth

\* masks that would follow the transition width given to recon_pyr: the
\* high-pass masks moved by the octaves it differs from the instance's
ReconMasksRebuilt(obj, twidth) ==
    [obj EXCEPT !._himasks =
        Tabulate([i \in DOMAIN @ |->
            [@[i] EXCEPT !.shift = @ + twidth - obj.twidth]])]

\* "load masks from model": the instance whose lo0mask, hi0mask, _himasks,
\* _lomasks and _anglemasks_recon the reconstruction reads, the local
\* twidth being read nowhere
ReconMasks(obj, twidth) == obj

\* recon_pyr(coeffs, levels, bands, twidth) returns, coeffs being the mapping
\* of the latest forward without its entry drop
ReconPyr(drop, levels, bands, twidth) ==
    /\ pc = "built"
    /\ drop \in 0..Len(pyr_coeffs)
    /\ LET coeffs == Without(pyr_coeffs, drop)
           keys   == ReconKeys(self, pyr_size, levels, bands).keys
       IN  /\ ReconPyrRaised(self, pyr_size, coeffs, levels, bands) = "none"
           /\ call' = [op |-> "recon_pyr", drop |-> drop, levels |-> levels,
                       bands |-> bands, twidth |-> twidth,
                       warned |-> twidth <= 0, raised |-> "none",
                       keys |-> keys,
                       out |-> Reconstruction(coeffs, keys,
                                    ReconMasks(self, ReconTwidth(twidth)))]
    /\ UNCHANGED <<pc, args, self, pyr_size, pyr_coeffs, x_id>>

\* recon_pyr(coeffs, levels, bands) raises
ReconPyrRaises(drop, levels, bands) ==
    /\ pc = "built"
    /\ drop \in 0..Len(pyr_coeffs)
    /\ LET coeffs == Without(pyr_coeffs, drop)
           raised == ReconPyrRaised(self, pyr_size, coeffs, levels, bands)
       IN  /\ raised # "none"
           /\ call' = [op |-> "recon_pyr", drop |-> drop, raised |-> raised]
    /\ UNCHANGED <<pc, args, self, pyr_size, pyr_coeffs, x_id>>

---------------------------------------------------------------------------
(* The arguments offered to the operations *)

Indices == -1..MaxIndex
ScaleIds == {IntId(i) : i \in Indices} \cup {ResidualHighpassId, ResidualLowpassId}
LevelIds == ScaleIds \cup {DigitsId(1), OtherStringId}

\* lists without repeats, one list with a repeat, and the int 0
ScalesArgs ==
    {ListArg(items) : items \in ListsUpTo(ScaleIds, MaxListLen)}
    \cup {ListArg(<<IntId(0), IntId(0)>>), NotAList(<<IntId(0)>>)}

LevelsArgs ==
    {AllLevels} \cup {SingleLevel(id) : id \in LevelIds}
    \cup {ListLevels(items) : items \in ListsUpTo(LevelIds, MaxListLen)}

BandsArgs ==
    {AllBands} \cup {ListBands(items) : items \in ListsUpTo(Indices, MaxListLen)}

\* recon_pyr's (levels, bands): one of the two is left at 'all'
ReconArgs ==
    (LevelsArgs \X {AllBands}) \cup ({AllLevels} \X BandsArgs)

\* the (levels, bands) with which recon_pyr's result is followed
ReconSomeArgs ==
    {<<AllLevels, AllBands>>,
     <<ListLevels(<<IntId(0)>>), AllBands>>,
     <<ListLevels(<<IntId(1), ResidualHighpassId>>), AllBands>>,
     <<ListLevels(<<ResidualLowpassId>>), AllBands>>,
     <<SingleLevel(ResidualHighpassId), AllBands>>,
     <<ListLevels(<<DigitsId(1)>>), AllBands>>,
     <<ListLevels(<<OtherStringId>>), AllBands>>,
     <<AllLevels, ListBands(<<0>>)>>}

\* the images offered to forward
Images == {1}

InitWith(ctor_args) ==
    /\ pc = "new"
    /\ args \in ctor_args
    /\ self = NoPyramid
    /\ pyr_size = <<>>
    /\ call = NoCall
    /\ pyr_coeffs = <<>>
    /\ x_id = 0

---------------------------------------------------------------------------
(* Spec: two-scale pyramids of 16x16 images, and forward with every scales  *)
(* argument, any number of times.  With twidth = 2 the tensors' shapes and  *)
(* dtypes are followed, not their values.                                   *)

CtorArgs ==
    {[image_shape |-> <<16, 16>>, height |-> ht, order |-> 3, twidth |-> 2,
      is_complex |-> b, downsample |-> b, tight_frame |-> FALSE] :
        ht \in {<<"auto", 0>>, <<"int", 3>>}, b \in BOOLEAN}

Init == InitWith(CtorArgs)

Next ==
    \/ Construct
    \/ ConstructRaises
    \/ \E id \in Images, sc \in ScalesArgs : Forward(id, sc)
    \/ \E id \in Images, sc \in ScalesArgs : ForwardRaises(id, sc)

Spec == Init /\ [][Next]_vars

---------------------------------------------------------------------------
(* SpecRecon: two-scale pyramids of 16x16 images; forward of the whole      *)
(* pyramid or of scale 0 alone, and recon_pyr of what forward returned, or  *)
(* of that with one entry deleted.                                          *)

ReconCtorArgs ==
    [image_shape : {<<16, 16>>},
     height      : {<<"auto", 0>>},
     order       : {3},
     twidth      : {1},
     is_complex  : BOOLEAN,
     downsample  : BOOLEAN,
     tight_frame : BOOLEAN]

\* the twidth offered to recon_pyr
TwidthArgs == {-1, 0, 2, 3}

ReconScalesArgs == {ListArg(<<>>), ListArg(<<IntId(0)>>)}

InitRecon == InitWith(ReconCtorArgs)

NextRecon ==
    \/ Construct
    \/ \E id \in Images, sc \in ReconScalesArgs : Forward(id, sc)
    \/ \E a \in ReconSomeArgs : ReconPyr(0, a[1], a[2], 1)
    \/ \E twidth \in TwidthArgs : ReconPyr(0, AllLevels, AllBands, twidth)
    \/ \E a \in ReconArgs : ReconPyrRaises(0, a[1], a[2])
    \/ \E drop \in 1..Len(pyr_coeffs), a \in ReconSomeArgs :
            ReconPyrRaises(drop, a[1], a[2])

SpecRecon == InitRecon /\ [][NextRecon]_vars

---------------------------------------------------------------------------
(* SpecCtor: the constructor with many arguments, and forward of the whole  *)
(* pyramid.                                                                 *)

MinDim == 4
MaxDim == 24
Dims == MinDim..MaxDim \cup {32, 64}

Shapes == {<<h, h>> : h \in Dims} \cup {<<h, 16>> : h \in Dims}

WideCtorArgs ==
    {[image_shape |-> shape, height |-> ht, order |-> ot[1],
      twidth |-> ot[2], is_complex |-> c, downsample |-> d,
      tight_frame |-> FALSE] :
        shape \in Shapes,
        ht \in {<<"auto", 0>>} \cup {<<"int", k>> : k \in {0, 1, 3, 5}},
        ot \in {<<3, 1>>, <<1, 1>>, <<0, 0>>, <<-2, -1>>, <<15, 2>>,
                <<16, 1>>, <<20, 3>>},
        c \in BOOLEAN, d \in BOOLEAN}

InitCtor == InitWith(WideCtorArgs)

NextCtor ==
    \/ Construct
    \/ ConstructRaises
    \/ \E id \in Images : Forward(id, ListArg(<<>>))

SpecCtor == InitCtor /\ [][NextCtor]_vars

---------------------------------------------------------------------------
(* convert_pyr_to_tensor, convert_tensor_to_pyr.  A BxCxHxW tensor is      *)
(* followed channel by channel: channel <<k, c>> is channel c of the       *)
(* coefficient forward returned under key k.                               *)

\* the (batch, channel) counts of the images offered to forward
MaxBatch == 2
MaxChannels == 2
XShapes == (1..MaxBatch) \X (1..MaxChannels)

\* the coefficient under key k of an image of x_shape = <<B, C>>
CoeffChannels(k, x_shape) ==
    [batch |-> x_shape[1],
     channels |-> Tabulate([c \in 1..x_shape[2] |-> <<k, c>>])]

\* 'residual' in k: a substring test on the two names, an element test on
\* the tuple (i, b)
IsResidualKey(k) == k[1] # "band"
IsBandKey(k) == ~IsResidualKey(k)

RECURSIVE CatChannels(_, _)
\* torch.cat(list, dim=1) of the coefficients under the keys ks
CatChannels(ks, x_shape) ==
    IF ks = <<>> THEN <<>>
    ELSE CoeffChannels(Head(ks), x_shape).channels
         \o CatChannels(Tail(ks), x_shape)

\* the order in which convert_pyr_to_tensor lays the keys out
ConvertKeyOrder(coeffs) ==
    LET coeff_list       == SelectSeq(Keys(coeffs), IsBandKey)
        coeff_list_resid == SelectSeq(Keys(coeffs), IsResidualKey)
    IN  IF Len(coeff_list) > 0
        THEN IF Len(coeff_list_resid) = 1
             THEN coeff_list_resid \o coeff_list
             ELSE IF Len(coeff_list_resid) = 2
             THEN <<coeff_list_resid[1]>> \o coeff_list
                  \o <<coeff_list_resid[2]>>
             ELSE coeff_list
        ELSE coeff_list_resid

\* the exception convert_pyr_to_tensor raises, or "none"; torch.cat of an
\* empty list raises
ConvertPyrToTensorRaised(obj, coeffs) ==
    IF obj.downsample THEN "AssertionError"
    ELSE IF Len(coeffs) = 0 THEN "RuntimeError"
    ELSE "none"

\* coeff_out
PyrToTensor(coeffs, x_shape) ==
    [batch |-> x_shape[1],
     channels |-> CatChannels(ConvertKeyOrder(coeffs), x_shape)]

\* the exception convert_tensor_to_pyr raises, or "none": pyr_tensor[:, i]
\* for i past the last channel
ConvertTensorToPyrRaised(size, pyr_tensor) ==
    IF Len(size) > Len(pyr_tensor.channels) THEN "IndexError" ELSE "none"

\* the mapping convert_tensor_to_pyr returns: channel i for the i-th key of
\* pyr_size
TensorToPyr(size, pyr_tensor) ==
    Tabulate([i \in DOMAIN size |->
        <<size[i][1],
          [batch |-> pyr_tensor.batch,
           channels |-> <<pyr_tensor.channels[i]>>]>>])

\* convert_pyr_to_tensor(c) returns, c being what the latest forward
\* returned for an image of shape x_shape
ConvertPyrToTensor(x_shape) ==
    /\ pc = "built"
    /\ ConvertPyrToTensorRaised(self, pyr_coeffs) = "none"
    /\ call' = [op |-> "convert_pyr_to_tensor", x_shape |-> x_shape,
                raised |-> "none", out |-> PyrToTensor(pyr_coeffs, x_shape)]
    /\ UNCHANGED <<pc, args, self, pyr_size, pyr_coeffs, x_id>>

\* convert_pyr_to_tensor(c) raises
ConvertPyrToTensorRaises ==
    /\ pc = "built"
    /\ ConvertPyrToTensorRaised(self, pyr_coeffs) # "none"
    /\ call' = [op |-> "convert_pyr_to_tensor",
                raised |-> ConvertPyrToTensorRaised(self, pyr_coeffs)]
    /\ UNCHANGED <<pc, args, self, pyr_size, pyr_coeffs, x_id>>

\* convert_tensor_to_pyr(t) returns, t being what convert_pyr_to_tensor has
\* just returned
ConvertTensorToPyr ==
    /\ pc = "built"
    /\ call.op = "convert_pyr_to_tensor" /\ call.raised = "none"
    /\ ConvertTensorToPyrRaised(pyr_size, call.out) = "none"
    /\ call' = [op |-> "convert_tensor_to_pyr", x_shape |-> call.x_shape,
                raised |-> "none", out |-> TensorToPyr(pyr_size, call.out)]
    /\ UNCHANGED <<pc, args, self, pyr_size, pyr_coeffs, x_id>>

\* convert_tensor_to_pyr(t) raises
ConvertTensorToPyrRaises ==
    /\ pc = "built"
    /\ call.op = "convert_pyr_to_tensor" /\ call.raised = "none"
    /\ ConvertTensorToPyrRaised(pyr_size, call.out) # "none"
    /\ call' = [op |-> "convert_tensor_to_pyr", x_shape |-> call.x_shape,
                raised |-> ConvertTensorToPyrRaised(pyr_size, call.out)]
    /\ UNCHANGED <<pc, args, self, pyr_size, pyr_coeffs, x_id>>

---------------------------------------------------------------------------
(* SpecUse: two-scale real pyramids of 16x16 images, with and without      *)
(* downsampling; forward of some scales, any number of times, and the      *)
(* conversions of what the latest forward returned.                        *)

\* steer(basis, angle, return_weights=True, even_phase): the steered
\* coefficient, of the shape given, and the weights of the combination
Steer(basis, angle, even_phase, shape) ==
    [res       |-> [shape |-> shape, steered |-> basis, angle |-> angle,
                    even_phase |-> even_phase],
     steervect |-> [harmonics |-> Len(basis), angle |-> angle,
                    even_phase |-> even_phase]]

\* pyr_coeffs[(i, j)] of a missing band, met while the bases are built
SteerCoeffsRaised(obj, coeffs) ==
    IF \E i \in 0..(obj.num_scales - 1), j \in 0..(obj.num_orientations - 1) :
            ~HasKey(coeffs, BandKey(i, j))
    THEN "KeyError"
    ELSE "none"

\* the keys of the bands of scale i a basis is made of
BasisKeys(obj, i) ==
    Tabulate([j \in 1..obj.num_orientations |-> BandKey(i, j - 1)])

RECURSIVE SteerScales(_, _, _, _, _)
\* the entries of the two dictionaries written from scale i on
SteerScales(obj, coeffs, angles, even_phase, i) ==
    IF i >= obj.num_scales
    THEN [resteered_coeffs |-> <<>>, resteering_weights |-> <<>>]
    ELSE LET basis == BasisKeys(obj, i)
             shape == Get(coeffs, BandKey(i, 0)).shape
             rest  == SteerScales(obj, coeffs, angles, even_phase, i + 1)
             st(j) == Steer(basis, angles[j + 1], even_phase, shape)
         IN  [resteered_coeffs |->
                 Tabulate([k \in DOMAIN angles |->
                     <<BandKey(i, obj.num_orientations + (k - 1)),
                       st(k - 1).res>>])
                 \o rest.resteered_coeffs,
              resteering_weights |->
                 Tabulate([k \in DOMAIN angles |->
                     <<BandKey(i, k - 1), st(k - 1).steervect>>])
                 \o rest.resteering_weights]

\* steer_coeffs(pyr_coeffs, angles, even_phase) returns
SteerCoeffs(angles, even_phase) ==
    /\ pc = "built"
    /\ SteerCoeffsRaised(self, pyr_coeffs) = "none"
    /\ LET out == SteerScales(self, pyr_coeffs, angles, even_phase, 0)
       IN  call' = [op |-> "steer_coeffs", raised |-> "none",
                    angles |-> angles,
                    resteered_coeffs |-> out.resteered_coeffs,
                    resteering_weights |-> out.resteering_weights]
    /\ UNCHANGED <<pc, args, self, pyr_size, pyr_coeffs, x_id>>

\* steer_coeffs(pyr_coeffs, angles, even_phase) raises
SteerCoeffsRaises ==
    /\ pc = "built"
    /\ SteerCoeffsRaised(self, pyr_coeffs) # "none"
    /\ call' = [op |-> "steer_coeffs",
                raised |-> SteerCoeffsRaised(self, pyr_coeffs)]
    /\ UNCHANGED <<pc, args, self, pyr_size, pyr_coeffs, x_id>>

\* the lists of angles offered: 0 to MaxAngles different angles
MaxAngles == 3
AnglesArgs == {Tabulate([k \in 1..n |-> k]) : n \in 0..MaxAngles}

\* the targets of to(...)
ToArgs ==
    {ToDtype(d) : d \in {"float32", "float64"}}
    \cup {ToDevice(v) : v \in {"cpu", "cuda:0"}}
    \cup {[dtype |-> "float64", device |-> "cuda:0"]}

\* to(...) returns self, its masks moved
MoveTo(target) ==
    /\ pc = "built"
    /\ self' = To(self, target)
    /\ call' = [op |-> "to", raised |-> "none", target |-> target]
    /\ UNCHANGED <<pc, args, pyr_size, pyr_coeffs, x_id>>

UseCtorArgs ==
    [image_shape : {<<16, 16>>},
     height      : {<<"auto", 0>>},
     order       : {1},
     twidth      : {2},
     is_complex  : {FALSE},
     downsample  : BOOLEAN,
     tight_frame : {FALSE}]

UseScalesArgs ==
    {ListArg(<<>>), ListArg(<<IntId(0)>>),
     ListArg(<<ResidualLowpassId, IntId(1)>>),
     ListArg(<<ResidualHighpassId>>)}

InitUse == InitWith(UseCtorArgs)

NextUse ==
    \/ Construct
    \/ \E id \in Images, sc \in UseScalesArgs : Forward(id, sc)
    \/ \E x_shape \in XShapes : ConvertPyrToTensor(x_shape)
    \/ ConvertPyrToTensorRaises
    \/ ConvertTensorToPyr
    \/ ConvertTensorToPyrRaises
    \/ \E target \in ToArgs : MoveTo(target)
    \/ \E angles \in AnglesArgs, even_phase \in BOOLEAN :
            SteerCoeffs(angles, even_phase)
    \/ SteerCoeffsRaises

SpecUse == InitUse /\ [][NextUse]_vars

---------------------------------------------------------------------------
(* Numbers of the metrics: rationals n/d in lowest terms with d > 0, nan,  *)
(* and "inexact" for a number that is not followed.                        *)

Q(n, d) ==
    LET g == Gcd(Abs(n), Abs(d))
        s == IF d < 0 THEN -1 ELSE 1
    IN  [kind |-> "num", n |-> s * (n \div g), d |-> s * (d \div g)]

QInt(i) == [kind |-> "num", n |-> i, d |-> 1]
QNaN == [kind |-> "nan", n |-> 0, d |-> 0]
QInexact == [kind |-> "inexact", n |-> 0, d |-> 0]

\* the result of an operation one of whose operands is not a rational
QPropagate(a, b) ==
    IF a.kind = "nan" \/ b.kind = "nan" THEN QNaN ELSE QInexact

\* whether x * y is small enough to be followed
MaxFollowed == 1000000000
Fits(x, y) == x = 0 \/ y = 0 \/ Abs(x) <= MaxFollowed \div Abs(y)

QAdd(a, b) ==
    IF a.kind # "num" \/ b.kind # "num" THEN QPropagate(a, b)
    ELSE IF ~(Fits(a.n, b.d) /\ Fits(b.n, a.d) /\ Fits(a.d, b.d))
    THEN QInexact
    ELSE Q(a.n * b.d + b.n * a.d, a.d * b.d)

QNeg(a) == [a EXCEPT !.n = -a.n]
QSub(a, b) == QAdd(a, QNeg(b))

QMul(a, b) ==
    IF a.kind # "num" \/ b.kind # "num" THEN QPropagate(a, b)
    ELSE IF ~(Fits(a.n, b.n) /\ Fits(a.d, b.d)) THEN QInexact
    ELSE Q(a.n * b.n, a.d * b.d)

\* a / b of torch: 0/0 is nan, x/0 is infinite (not followed)
QDiv(a, b) ==
    IF a.kind # "num" \/ b.kind # "num" THEN QPropagate(a, b)
    ELSE IF b.n = 0 THEN (IF a.n = 0 THEN QNaN ELSE QInexact)
    ELSE IF ~(Fits(a.n, b.d) /\ Fits(a.d, b.n)) THEN QInexact
    ELSE Q(a.n * b.d, a.d * b.n)

RECURSIVE QPow(_, _)
\* a.pow(p) for a natural p; pow(0, 0) = 1
QPow(a, p) == IF p <= 0 THEN QInt(1) ELSE QMul(a, QPow(a, p - 1))

\* F.relu left out
QReluIdentity(a) == a

\* F.relu; relu(nan) = nan
QRelu(a) == IF a.kind = "num" /\ a.n < 0 THEN QInt(0) ELSE a

\* a < b for two rationals that are followed
QLess(a, b) == a.n * b.d < b.n * a.d

RECURSIVE QSum(_)
QSum(seq) == IF seq = <<>> THEN QInt(0) ELSE QAdd(Head(seq), QSum(Tail(seq)))

---------------------------------------------------------------------------
(* One channel of one image: h x w rationals, row by row *)

Grid(h, w, px) == [h |-> h, w |-> w, px |-> px]
At(g, r, c) == g.px[(r - 1) * g.w + c]

GridOf(h, w, F(_, _)) ==
    Grid(h, w, Tabulate([i \in 1..(h * w) |->
                            F(((i - 1) \div w) + 1, ((i - 1) % w) + 1)]))

GMul(a, b) == Grid(a.h, a.w, Tabulate([i \in DOMAIN a.px |-> QMul(a.px[i], b.px[i])]))
GAdd(a, b) == Grid(a.h, a.w, Tabulate([i \in DOMAIN a.px |-> QAdd(a.px[i], b.px[i])]))
GSub(a, b) == Grid(a.h, a.w, Tabulate([i \in DOMAIN a.px |-> QSub(a.px[i], b.px[i])]))
GDiv(a, b) == Grid(a.h, a.w, Tabulate([i \in DOMAIN a.px |-> QDiv(a.px[i], b.px[i])]))
GAddConst(a, c) == Grid(a.h, a.w, Tabulate([i \in DOMAIN a.px |-> QAdd(a.px[i], c)]))
GMulConst(a, c) == Grid(a.h, a.w, Tabulate([i \in DOMAIN a.px |-> QMul(a.px[i], c)]))

\* t.mean((-1, -2))
GMean(g) == QDiv(QSum(g.px), QInt(g.h * g.w))

\* the source coordinate of coordinate i of an axis of length n padded by
\* F.pad in the given mode (0: the padding value zero)
PadSource(i, n, mode) ==
    IF i >= 1 /\ i <= n THEN i
    ELSE IF mode = "constant" THEN 0
    ELSE IF mode = "replicate" THEN (IF i < 1 THEN 1 ELSE n)
    ELSE IF mode = "circular" THEN ((i - 1) % n) + 1
    ELSE (IF i < 1 THEN 2 - i ELSE 2 * n - i)

\* F.pad(x, [left, right, top, bottom], mode)
FPad(g, left, right, top, bottom, mode) ==
    LET F(r, c) ==
            LET sr == PadSource(r - top, g.h, mode)
                sc == PadSource(c - left, g.w, mode)
            IN  IF sr = 0 \/ sc = 0 THEN QInt(0) ELSE At(g, sr, sc)
    IN  GridOf(g.h + top + bottom, g.w + left + right, F)

\* _get_same_padding(x, kernel_size, stride = 1, dilation = 1)
GetSamePadding(x, kernel_size) == Max((x - 1) + (kernel_size - 1) + 1 - x, 0)

\* same_padding(x, (k, k), pad_mode = mode)
SamePadding(g, k, mode) ==
    LET pad_h == GetSamePadding(g.h, k)
        pad_w == GetSamePadding(g.w, k)
    IN  IF pad_h > 0 \/ pad_w > 0
        THEN FPad(g, pad_w \div 2, pad_w - (pad_w \div 2),
                  pad_h \div 2, pad_h - (pad_h \div 2), mode)
        ELSE g

\* circular_gaussian2d(k, std): for k = 1 and k = 2 every entry of the
\* window is at the same distance from its centre, so that the window that
\* sums to 1 is uniform
WindowWeight(k) == Q(1, k * k)

\* F.conv2d(img, window, padding=0) with the k x k window
WindowedAverage(g, k) ==
    LET F(r, c) ==
            QMul(WindowWeight(k),
                 QSum([j \in 1..(k * k) |->
                        At(g, r + ((j - 1) \div k), c + ((j - 1) % k))]))
    IN  GridOf(g.h - k + 1, g.w - k + 1, F)

---------------------------------------------------------------------------
(* The images given to the metrics.  kind "any": only the shape is         *)
(* followed; "pixels": one channel of h x w rationals; "zero", "generic":  *)
(* an image of zeros, an image none of whose coefficients is zero, given   *)
(* to the pyramids.                                                        *)

AnyImage(shape) == [shape |-> shape, kind |-> "any", px |-> <<>>]
PixelImage(h, w, px) ==
    [shape |-> <<1, 1, h, w>>, kind |-> "pixels",
     px |-> Tabulate([i \in DOMAIN px |-> QInt(px[i])])]
PyramidImage(shape, kind) == [shape |-> shape, kind |-> kind, px |-> <<>>]

GridOfImage(img) == Grid(img.shape[3], img.shape[4], img.px)

\* the checks, were a count of 1 not allowed to differ from the other's
ShapeCheckRaisedNoBroadcast(shape1, shape2) ==
    IF ~(Len(shape1) = 4 /\ Len(shape2) = 4) THEN "Exception"
    ELSE IF <<shape1[3], shape1[4]>> # <<shape2[3], shape2[4]>>
    THEN "Exception"
    ELSE IF \E i \in 1..2 : shape1[i] # shape2[i] THEN "Exception"
    ELSE "none"

\* the checks of the shapes of img1 and img2
ShapeCheckRaised(shape1, shape2) ==
    IF ~(Len(shape1) = 4 /\ Len(shape2) = 4) THEN "Exception"
    ELSE IF <<shape1[3], shape1[4]>> # <<shape2[3], shape2[4]>>
    THEN "Exception"
    ELSE IF \E i \in 1..2 :
                shape1[i] # shape2[i] /\ shape1[i] # 1 /\ shape2[i] # 1
    THEN "Exception"
    ELSE "none"

\* the warning about more than one channel
ChannelsWarned(shape1, shape2) == shape1[2] > 1 \/ shape2[2] > 1

\* whether the values of the call are followed
Followed(img1, img2, kind) == img1.kind = kind /\ img2.kind = kind

\* _ssim_parts(img1, img2, dynamic_range, pad) on two grids: map_ssim,
\* contrast_structure_map, and the number whose logarithm is weight
SsimPartsOf(g1, g2, dynamic_range, pad) ==
    LET real_size == Min(11, Min(g1.h, g1.w))
        p1 == IF pad = "False" THEN g1 ELSE SamePadding(g1, real_size, pad)
        p2 == IF pad = "False" THEN g2 ELSE SamePadding(g2, real_size, pad)
        mu1 == WindowedAverage(p1, real_size)
        mu2 == WindowedAverage(p2, real_size)
        mu1_sq == GMul(mu1, mu1)
        mu2_sq == GMul(mu2, mu2)
        mu1_mu2 == GMul(mu1, mu2)
        sigma1_sq == GSub(WindowedAverage(GMul(p1, p1), real_size), mu1_sq)
        sigma2_sq == GSub(WindowedAverage(GMul(p2, p2), real_size), mu2_sq)
        sigma12 == GSub(WindowedAverage(GMul(p1, p2), real_size), mu1_mu2)
        C1 == Q(dynamic_range * dynamic_range, 10000)
        C2 == Q(9 * dynamic_range * dynamic_range, 10000)
        luminance_map ==
            GDiv(GAddConst(GMulConst(mu1_mu2, QInt(2)), C1),
                 GAddConst(GAdd(mu1_sq, mu2_sq), C1))
        contrast_structure_map ==
            GDiv(GAddConst(GMulConst(sigma12, QInt(2)), C2),
                 GAddConst(GAdd(sigma1_sq, sigma2_sq), C2))
        one_plus(s) == GAddConst(GMulConst(s, QDiv(QInt(1), C2)), QInt(1))
    IN  [map_ssim |-> GMul(luminance_map, contrast_structure_map),
         contrast_structure_map |-> contrast_structure_map,
         exp_weight |-> GMul(one_plus(sigma1_sq), one_plus(sigma2_sq))]

\* (map_ssim*weight).sum((-1, -2)) / weight.sum((-1, -2)) with weight =
\* log(exp_weight): 0/0 when every weight is log(1); the common value of
\* map_ssim where the weight is not zero, when there is one
WeightedMean(map_ssim, exp_weight) ==
    LET heavy == {i \in DOMAIN exp_weight.px : exp_weight.px[i] # QInt(1)}
    IN  IF heavy = {} THEN QNaN
        ELSE IF \E i \in heavy : QLess(exp_weight.px[i], QInt(1))
        THEN QInexact
        ELSE IF \E m \in Range(map_ssim.px) :
                    \A i \in heavy : map_ssim.px[i] = m
        THEN map_ssim.px[CHOOSE i \in heavy : TRUE]
        ELSE QInexact

\* the warning about images smaller than the 11x11 kernel
SmallWarned(shape) == Min(shape[3], shape[4]) < 11

\* ssim(img1, img2, weighted, dynamic_range, pad)
SsimOf(img1, img2, weighted, dynamic_range, pad) ==
    LET raised == ShapeCheckRaised(img1.shape, img2.shape)
        parts == SsimPartsOf(GridOfImage(img1), GridOfImage(img2),
                             dynamic_range, pad)
    IN  IF raised # "none" THEN [op |-> "ssim", raised |-> raised]
        ELSE [op |-> "ssim", raised |-> "none",
              warned |-> ChannelsWarned(img1.shape, img2.shape),
              out |-> IF ~Followed(img1, img2, "pixels") THEN QInexact
                      ELSE IF ~weighted THEN GMean(parts.map_ssim)
                      ELSE WeightedMean(parts.map_ssim, parts.exp_weight)]

\* ssim_map(img1, img2, dynamic_range): img1.shape[3] is read first
SsimMapOf(img1, img2, dynamic_range) ==
    LET raised == IF Len(img1.shape) < 4 THEN "IndexError"
                  ELSE ShapeCheckRaised(img1.shape, img2.shape)
    IN  IF raised # "none" THEN [op |-> "ssim_map", raised |-> raised]
        ELSE [op |-> "ssim_map", raised |-> "none",
              warned |-> ChannelsWarned(img1.shape, img2.shape),
              out |-> IF ~Followed(img1, img2, "pixels") THEN <<>>
                      ELSE SsimPartsOf(GridOfImage(img1), GridOfImage(img2),
                                       dynamic_range, "False").map_ssim.px]

\* downsample(img) of ms_ssim: replicate an odd axis' last entry, then
\* F.avg_pool2d(img, kernel_size=2)
MsSsimDownsample(g) ==
    LET p == FPad(g, 0, g.w % 2, 0, g.h % 2, "replicate")
        F(r, c) == QMul(Q(1, 4),
                        QSum(<<At(p, 2 * r - 1, 2 * c - 1), At(p, 2 * r - 1, 2 * c),
                               At(p, 2 * r, 2 * c - 1), At(p, 2 * r, 2 * c)>>))
    IN  GridOf(p.h \div 2, p.w \div 2, F)

RECURSIVE MsSsimLoop(_, _, _, _, _, _)
\* the loop of ms_ssim from scale i on, and the last scale
MsSsimLoop(g1, g2, dynamic_range, power_factors, i, msssim) ==
    LET parts == SsimPartsOf(g1, g2, dynamic_range, "False")
    IN  IF i < Len(power_factors)
        THEN MsSsimLoop(MsSsimDownsample(g1), MsSsimDownsample(g2),
                        dynamic_range, power_factors, i + 1,
                        QMul(msssim,
                             QPow(QRelu(GMean(parts.contrast_structure_map)),
                                  power_factors[i])))
        ELSE QMul(msssim,
                  QPow(QRelu(GMean(parts.map_ssim)), power_factors[i]))

\* ms_ssim(img1, img2, dynamic_range, power_factors), power_factors a list
\* of at least one natural number
MsSsimOf(img1, img2, dynamic_range, power_factors) ==
    LET raised == ShapeCheckRaised(img1.shape, img2.shape)
    IN  IF raised # "none" THEN [op |-> "ms_ssim", raised |-> raised]
        ELSE [op |-> "ms_ssim", raised |-> "none",
              warned |-> ChannelsWarned(img1.shape, img2.shape),
              downsampled |-> Len(power_factors) - 1,
              out |-> IF ~Followed(img1, img2, "pixels") THEN QInexact
                      ELSE MsSsimLoop(GridOfImage(img1), GridOfImage(img2),
                                      dynamic_range, power_factors, 1,
                                      QInt(1))]

---------------------------------------------------------------------------
(* nlpd and nspd.  A distance is followed as "eps" (sqrt(1e-10), every      *)
(* difference being zero), "more" (a larger finite number) or "nan".       *)

\* normalized_laplacian_pyramid(img): six activations, each the Laplacian
\* pyramid's divided by sigma plus its filtered absolute values; followed
\* by the image they come from
NormalizedLaplacianPyramid(img) ==
    Tabulate([N_b \in 1..6 |->
                [scale |-> N_b - 1, of |-> img.kind, px |-> img.px]])

\* torch.sqrt(torch.mean((y1 - y2) ** 2, dim=(2, 3)) + epsilon)
RmsTerm(same) == IF same THEN "eps" ELSE "more"

\* torch.stack(dist).mean(dim=0)
MeanOfTerms(dist) ==
    IF \E i \in DOMAIN dist : dist[i] = "nan" THEN "nan"
    ELSE IF \A i \in DOMAIN dist : dist[i] = "eps" THEN "eps"
    ELSE "more"

\* nlpd(img1, img2)
NlpdOf(img1, img2) ==
    LET raised == ShapeCheckRaised(img1.shape, img2.shape)
        y1 == NormalizedLaplacianPyramid(img1)
        y2 == NormalizedLaplacianPyramid(img2)
        dist == Tabulate([i \in 1..6 |-> RmsTerm(y1[i] = y2[i])])
    IN  IF raised # "none" THEN [op |-> "nlpd", raised |-> raised]
        ELSE [op |-> "nlpd", raised |-> "none",
              warned |-> ChannelsWarned(img1.shape, img2.shape),
              out |-> IF img1.kind = "any" \/ img2.kind = "any"
                      THEN "not followed" ELSE MeanOfTerms(dist)]

\* the arguments of a pyramid of four scales
NspdCtorArgsFourScales(img) ==
    [image_shape |-> <<img.shape[3], img.shape[4]>>, height |-> <<"int", 4>>,
     order |-> 3, twidth |-> 1, is_complex |-> FALSE, downsample |-> TRUE,
     tight_frame |-> FALSE]

\* the arguments of the pyramid normalized_steerable_pyramid builds
NspdCtorArgs(img) ==
    [image_shape |-> <<img.shape[3], img.shape[4]>>, height |-> <<"int", 5>>,
     order |-> 3, twidth |-> 1, is_complex |-> FALSE, downsample |-> TRUE,
     tight_frame |-> FALSE]

\* the tensor forward is given: zeros, or generic image number px
PyramidInput(img, obj) ==
    IF img.kind = "zero"
    THEN [Image(1, obj) EXCEPT
            !.dft = Tabulate([q \in Samples(obj) |-> Zero])]
    ELSE Image(img.px[1], obj)

\* a tensor of zeros
IsZeroTensor(t) == \A q \in DOMAIN t.dft : t.dft[q] = Zero

\* local_gain_control(coeff, epsilon = sigma)[1]: coeff divided by sigma
\* plus its local norm
LocalGainControl(coeff, sigma) == [coeff |-> coeff, epsilon |-> sigma]

\* spyr.forward(img) of the pyramid built for img
NspdForward(img) ==
    CHOOSE spyr_coeffs \in
        UNION {{ForwardCoeffs(spyr, x, ListArg(<<>>)) :
                    x \in {PyramidInput(img, spyr)}} :
               spyr \in {To(NewPyramid(NspdCtorArgs(img)), ToDevice("cpu"))}} :
        TRUE

\* the loop over spyr_coeffs.keys(): 'residual_lowpass' as it is,
\* 'residual_highpass' skipped, every band gain-normalized with its sigma
NormalizeCoeffs(spyr_coeffs) ==
    LET kept == SelectSeq(spyr_coeffs, LAMBDA e : e[1] # ResidualHighpass)
    IN  Tabulate([i \in DOMAIN kept |->
            IF kept[i][1] = ResidualLowpass THEN kept[i]
            ELSE <<kept[i][1], LocalGainControl(kept[i][2], kept[i][1])>>])

\* normalized_steerable_pyramid(img), sigmas being the stored ones: the
\* exception raised, or the mapping returned
NormalizedSteerablePyramid(img) ==
    LET a == NspdCtorArgs(img)
    IN  IF HeightTooLarge(a.height, a.image_shape)
        THEN [raised |-> "Exception", coeffs |-> <<>>]
        ELSE [raised |-> "none",
              coeffs |-> CHOOSE y \in {NormalizeCoeffs(spyr_coeffs) :
                                         spyr_coeffs \in {NspdForward(img)}} :
                              TRUE]

\* the term of 'residual_lowpass': the mean of (y1 - y2)^2 / (y1^2 + y2^2),
\* 0/0 where both are zero
LowpassTerm(y1, y2) ==
    IF IsZeroTensor(y1) /\ IsZeroTensor(y2) THEN "nan"
    ELSE RmsTerm(y1 = y2)

\* the terms nspd averages, key by key
NspdTerms(y1, y2) ==
    Tabulate([i \in DOMAIN y1 |->
        LET key == y1[i][1]
        IN  IF key = ResidualLowpass
            THEN [key |-> key, normalized |-> TRUE,
                  term |-> LowpassTerm(y1[i][2], Get(y2, key))]
            ELSE [key |-> key, normalized |-> FALSE,
                  term |-> RmsTerm(y1[i][2] = Get(y2, key))]])

\* the distance nspd returns for the two representations
NspdDistance(img1, img2, y1, y2) ==
    CHOOSE r \in
        {[op |-> "nspd", raised |-> "none",
          warned |-> ChannelsWarned(img1.shape, img2.shape),
          keys |-> Keys(y1), terms |-> terms,
          out |-> MeanOfTerms(Tabulate([i \in DOMAIN terms |-> terms[i].term]))] :
         terms \in {NspdTerms(y1, y2)}} : TRUE

\* nspd(img1, img2)
NspdOf(img1, img2) ==
    LET raised == ShapeCheckRaised(img1.shape, img2.shape)
        a == NspdCtorArgs(img1)
    IN  IF raised # "none" THEN [op |-> "nspd", raised |-> raised]
        ELSE IF HeightTooLarge(a.height, a.image_shape)
        THEN [op |-> "nspd",
              raised |-> NormalizedSteerablePyramid(img1).raised,
              at |-> "Steerable_Pyramid_Freq"]
        ELSE IF img1.kind \notin {"zero", "generic"}
                \/ img2.kind \notin {"zero", "generic"}
        THEN [op |-> "nspd", raised |-> "none",
              warned |-> ChannelsWarned(img1.shape, img2.shape),
              keys |-> <<>>, terms |-> <<>>, out |-> "not followed"]
        ELSE CHOOSE r \in
                {NspdDistance(img1, img2, n1.coeffs, n2.coeffs) :
                    n1 \in {NormalizedSteerablePyramid(img1)},
                    n2 \in {NormalizedSteerablePyramid(img2)}} : TRUE

---------------------------------------------------------------------------
(* SpecMetric: one call of one metric on arguments drawn at the start *)

MaxCount == 3
MetricShapes ==
    {<<b, c, hw[1], hw[2]>> : b \in 1..MaxCount, c \in 1..MaxCount,
                              hw \in {<<2, 2>>, <<2, 4>>}}
    \cup {<<2, 2>>, <<1, 2, 2>>, <<1, 1, 1, 2, 2>>}

MaxPixel == 1
\* 2x2 images of 0 and one other value: all zero, constant, the two
\* diagonals, and one corner
PixelPatterns ==
    {<<1, 1, 1, 1>>, <<1, 0, 0, 1>>, <<0, 1, 1, 0>>, <<1, 0, 0, 0>>}
PixelImages ==
    {PixelImage(2, 2, <<0, 0, 0, 0>>)}
    \cup {PixelImage(2, 2, <<p[1] * v, p[2] * v, p[3] * v, p[4] * v>>) :
            p \in PixelPatterns, v \in 1..MaxPixel}

PyramidImages ==
    {PyramidImage(<<1, 1, 128, 128>>, "zero")}
    \cup {[shape |-> <<1, 1, 128, 128>>, kind |-> "generic", px |-> <<id>>] :
            id \in 1..2}

\* images around the smallest size a pyramid of five scales can be built for
ThresholdImages ==
    {AnyImage(<<1, 1, hw[1], hw[2]>>) :
        hw \in {<<64, 64>>, <<127, 127>>, <<127, 128>>, <<128, 127>>,
                <<128, 128>>, <<129, 200>>, <<256, 128>>}}

DynamicRanges == {1, 255}
PadModes == {"False", "constant", "reflect", "replicate", "circular"}

MetricArgs ==
    [img1 : {AnyImage(s) : s \in MetricShapes},
     img2 : {AnyImage(s) : s \in MetricShapes},
     weighted : {FALSE}, dynamic_range : {1}, pad : {"False"},
     power_factors : {<<1>>}]
    \cup [img1 : PixelImages, img2 : PixelImages, weighted : BOOLEAN,
          dynamic_range : DynamicRanges, pad : PadModes,
          power_factors : {<<1>>}]
    \cup [img1 : PixelImages, img2 : PixelImages, weighted : {FALSE},
          dynamic_range : {1}, pad : {"False"},
          power_factors : {<<0>>, <<2>>, <<1, 1>>, <<1, 2, 1>>}]
    \cup [img1 : PyramidImages, img2 : PyramidImages,
          weighted : {FALSE}, dynamic_range : {1}, pad : {"False"},
          power_factors : {<<1>>}]
    \cup [img1 : ThresholdImages, img2 : ThresholdImages,
          weighted : {FALSE}, dynamic_range : {1}, pad : {"False"},
          power_factors : {<<1>>}]

InitMetric ==
    /\ pc = "metric"
    /\ args \in MetricArgs
    /\ self = NoPyramid
    /\ pyr_size = <<>>
    /\ call = NoCall
    /\ pyr_coeffs = <<>>
    /\ x_id = 0

\* the call made: its result, or the exception it raised
Called(result) ==
    /\ pc = "metric"
    /\ pc' = "called"
    /\ call' = result
    /\ UNCHANGED <<args, self, pyr_size, pyr_coeffs, x_id>>

Ssim ==
    Called(SsimOf(args.img1, args.img2, args.weighted, args.dynamic_range,
                  args.pad))

SsimMap == Called(SsimMapOf(args.img1, args.img2, args.dynamic_range))

MsSsim ==
    Called(MsSsimOf(args.img1, args.img2, args.dynamic_range,
                    args.power_factors))

Nlpd == Called(NlpdOf(args.img1, args.img2))

Nspd == Called(NspdOf(args.img1, args.img2))

NextMetric == Ssim \/ SsimMap \/ MsSsim \/ Nlpd \/ Nspd

SpecMetric == InitMetric /\ [][NextMetric]_vars

---------------------------------------------------------------------------
(* SpecScales: one forward call on each fresh instance of the pyramids of   *)
(* SpecRecon, whose coefficients are exact, with every scales argument, and *)
(* recon_pyr of a whole mapping made by another instance.                   *)

\* forward(x, scales) as the first call on the instance
FirstForward(id, sc) == call.op = "__init__" /\ Forward(id, sc)
FirstForwardRaises(id, sc) == call.op = "__init__" /\ ForwardRaises(id, sc)

\* the mapping forward(x, []) of another instance built with the same
\* arguments returns
GivenCoeffs(id) == ForwardCoeffs(NewPyramid(args), Image(id, NewPyramid(args)),
                                 ListArg(<<>>))

\* the (levels, bands) offered with such a mapping
GivenArgs ==
    {<<AllLevels, AllBands>>, <<ListLevels(<<ResidualLowpassId>>), AllBands>>,
     <<ListLevels(<<IntId(-1)>>), AllBands>>, <<AllLevels, ListBands(<<-1>>)>>}

\* recon_pyr(coeffs, levels, bands) returns, coeffs being a whole mapping
\* that was not made by this instance; the call follows the constructor or
\* the instance's one forward
ReconPyrGiven(id, levels, bands) ==
    /\ pc = "built"
    /\ call.op \in {"__init__", "forward"}
    /\ \E coeffs \in {GivenCoeffs(id)} :
        \E keys \in {ReconKeys(self, pyr_size, levels, bands).keys} :
            /\ ReconPyrRaised(self, pyr_size, coeffs, levels, bands) = "none"
            /\ call' = [op |-> "recon_pyr", given |-> id, levels |-> levels,
                        bands |-> bands, raised |-> "none", keys |-> keys,
                        out |-> Reconstruction(coeffs, keys,
                                    ReconMasks(self, ReconTwidth(1)))]
    /\ UNCHANGED <<pc, args, self, pyr_size, pyr_coeffs, x_id>>

\* the same call raises
ReconPyrGivenRaises(id, levels, bands) ==
    /\ pc = "built"
    /\ call.op \in {"__init__", "forward"}
    /\ \E raised \in {ReconPyrRaised(self, pyr_size, GivenCoeffs(id),
                                      levels, bands)} :
            /\ raised # "none"
            /\ call' = [op |-> "recon_pyr", given |-> id, raised |-> raised]
    /\ UNCHANGED <<pc, args, self, pyr_size, pyr_coeffs, x_id>>

InitScales == InitWith(ReconCtorArgs)

NextScales ==
    \/ Construct
    \/ \E id \in Images, sc \in ScalesArgs : FirstForward(id, sc)
    \/ \E id \in Images, sc \in ScalesArgs : FirstForwardRaises(id, sc)
    \/ \E id \in Images, a \in GivenArgs : ReconPyrGiven(id, a[1], a[2])
    \/ \E id \in Images, a \in GivenArgs : ReconPyrGivenRaises(id, a[1], a[2])

SpecScales == InitScales /\ [][NextScales]_vars

---------------------------------------------------------------------------
(* SpecConv: the sizes of what the functions of tools/conv.py return.  A    *)
(* tensor is followed by its height and width; the filter is k x k.         *)

\* F.pad(x, (left, right, top, bottom), mode) of a tensor of shape <<h, w>>:
\* the shape of the result; in reflect mode each padding must be smaller
\* than the axis it pads
PadShape(shape, left, right, top, bottom, mode) ==
    IF mode = "reflect" /\ (\/ left >= shape[2] \/ right >= shape[2]
                            \/ top >= shape[1] \/ bottom >= shape[1])
    THEN [raised |-> "RuntimeError"]
    ELSE [raised |-> "none",
          shape  |-> <<shape[1] + top + bottom, shape[2] + left + right>>]

\* F.conv2d(x, filt, stride=stride) without padding: floor((n - k)/stride) + 1
Conv2dShape(shape, filt, stride) ==
    IF shape[1] < filt[1] \/ shape[2] < filt[2]
    THEN [raised |-> "RuntimeError"]
    ELSE [raised |-> "none",
          shape  |-> <<((shape[1] - filt[1]) \div stride) + 1,
                       ((shape[2] - filt[2]) \div stride) + 1>>]

\* F.conv_transpose2d(x, ones((n_channels, 1, 1, 1)), stride=2)
ConvTranspose2dShape(shape) == <<(shape[1] - 1) * 2 + 1, (shape[2] - 1) * 2 + 1>>

\* same_padding(x, kernel_size, pad_mode=mode) with stride and dilation 1
SamePaddingShape(shape, kernel_size, mode) ==
    LET pad_h == GetSamePadding(shape[1], kernel_size[1])
        pad_w == GetSamePadding(shape[2], kernel_size[2])
    IN  IF pad_h > 0 \/ pad_w > 0
        THEN PadShape(shape, pad_w \div 2, pad_w - (pad_w \div 2),
                      pad_h \div 2, pad_h - (pad_h \div 2), mode)
        ELSE [raised |-> "none", shape |-> shape]

\* correlate_downsample(image, filt)
CorrelateDownsample(shape, filt) ==
    LET image_padded == SamePaddingShape(shape, filt, "reflect")
    IN  IF image_padded.raised # "none" THEN image_padded
        ELSE Conv2dShape(image_padded.shape, filt, 2)

\* an upsample_convolve that would leave odd out of pad_end
UpsampleConvolveEven(shape, odd, filt) ==
    LET pad_start == <<filt[1] \div 2, filt[2] \div 2>>
        pad_end   == <<filt[1] - pad_start[1], filt[2] - pad_start[2]>>
        image_prepad == PadShape(shape, pad_start[2] \div 2, pad_end[2] \div 2,
                                 pad_start[1] \div 2, pad_end[1] \div 2, "reflect")
    IN  IF image_prepad.raised # "none" THEN image_prepad
        ELSE Conv2dShape(
                PadShape(ConvTranspose2dShape(image_prepad.shape),
                         pad_start[2] % 2, pad_end[2] % 2,
                         pad_start[1] % 2, pad_end[1] % 2, "constant").shape,
                filt, 1)

\* upsample_convolve(image, odd, filt)
UpsampleConvolve(shape, odd, filt) ==
    LET pad_start == <<filt[1] \div 2, filt[2] \div 2>>
        pad_end   == <<filt[1] - odd[1] - pad_start[1],
                       filt[2] - odd[2] - pad_start[2]>>
        image_prepad == PadShape(shape, pad_start[2] \div 2, pad_end[2] \div 2,
                                 pad_start[1] \div 2, pad_end[1] \div 2, "reflect")
    IN  IF image_prepad.raised # "none" THEN image_prepad
        ELSE Conv2dShape(
                PadShape(ConvTranspose2dShape(image_prepad.shape),
                         pad_start[2] % 2, pad_end[2] % 2,
                         pad_start[1] % 2, pad_end[1] % 2, "constant").shape,
                filt, 1)

RECURSIVE BlurDownsample(_, _, _)
\* blur_downsample(x, n_scales, order_plus_one)
BlurDownsample(shape, n_scales, order_plus_one) ==
    LET filt == <<order_plus_one, order_plus_one>>
        x == IF n_scales > 1
             THEN BlurDownsample(shape, n_scales - 1, order_plus_one)
             ELSE [raised |-> "none", shape |-> shape]
    IN  IF x.raised # "none" THEN x
        ELSE IF n_scales >= 1 THEN CorrelateDownsample(x.shape, filt)
        ELSE x

\* upsample_blur(x, odd, order_plus_one)
UpsampleBlur(shape, odd, order_plus_one) ==
    UpsampleConvolve(shape, odd, <<order_plus_one, order_plus_one>>)

\* sides of the tensors and of the filters
MaxSide == 6
MaxKernel == 5

ConvArgs ==
    [shape : (1..MaxSide) \X (1..MaxSide), k : 2..MaxKernel]

Odds == {0, 1} \X {0, 1}

\* the n_scales offered to blur_downsample
NScales == 0..2

InitConv ==
    /\ pc = "conv"
    /\ args \in ConvArgs
    /\ self = NoPyramid
    /\ pyr_size = <<>>
    /\ call = NoCall
    /\ pyr_coeffs = <<>>
    /\ x_id = 0

\* the tensor at hand: what blur_downsample returned, or else the input
ConvInput ==
    IF call.op = "blur_downsample" /\ call.raised = "none"
    THEN call.out ELSE args.shape

ConvCalled(op, odd, n_scales, r) ==
    /\ pc = "conv"
    /\ call.op \in {"none", "blur_downsample"}
    /\ call' = IF r.raised # "none"
               THEN [op |-> op, after |-> call, x |-> ConvInput, odd |-> odd,
                     n_scales |-> n_scales, raised |-> r.raised]
               ELSE [op |-> op, after |-> call, x |-> ConvInput, odd |-> odd,
                     n_scales |-> n_scales, raised |-> "none", out |-> r.shape]
    /\ UNCHANGED <<pc, args, self, pyr_size, pyr_coeffs, x_id>>

\* upsample_convolve(x, odd, filt) returns or raises
CallUpsampleConvolve(odd) ==
    ConvCalled("upsample_convolve", odd, 0,
               UpsampleConvolve(ConvInput, odd, <<args.k, args.k>>))

\* upsample_blur(x, odd, order_plus_one) returns or raises
CallUpsampleBlur(odd) ==
    ConvCalled("upsample_blur", odd, 0, UpsampleBlur(ConvInput, odd, args.k))

\* blur_downsample(x, n_scales, order_plus_one) returns or raises
CallBlurDownsample(n_scales) ==
    /\ call.op = "none"
    /\ ConvCalled("blur_downsample", <<0, 0>>, n_scales,
                  BlurDownsample(ConvInput, n_scales, args.k))

NextConv ==
    \/ \E odd \in Odds : CallUpsampleConvolve(odd)
    \/ \E odd \in Odds : CallUpsampleBlur(odd)
    \/ \E n_scales \in NScales : CallBlurDownsample(n_scales)

SpecConv == InitConv /\ [][NextConv]_vars

---------------------------------------------------------------------------
(* SpecInterleave: two forward calls on one instance whose writes to        *)
(* self.pyr_size are interleaved, after any serial forward calls.  A call   *)
(* in flight is [scales, writes, at]: its argument, the <<key, size>> it    *)
(* writes in the order it writes them, and how many it has written.         *)

InterleaveCtorArgs ==
    [image_shape : {<<16, 16>>, <<20, 16>>},
     height      : {<<"auto", 0>>},
     order       : {1},
     twidth      : {2},
     is_complex  : {FALSE},
     downsample  : BOOLEAN,
     tight_frame : {FALSE}]

InterleaveScalesArgs ==
    {ListArg(<<>>), ListArg(<<IntId(0)>>),
     ListArg(<<ResidualLowpassId, IntId(1)>>), ListArg(<<ResidualHighpassId>>)}

\* the writes to self.pyr_size of forward(x, sc), in order
SizeWrites(obj, id, sc) ==
    CHOOSE w \in {Tabulate([i \in DOMAIN coeffs |->
                        <<coeffs[i][1], coeffs[i][2].shape>>]) :
                    coeffs \in {ForwardCoeffs(obj, Image(id, obj), sc)}} : TRUE

\* two forward calls start
BeginForwards(id, sc1, sc2) ==
    /\ pc = "built"
    /\ ForwardRaised(self, sc1) = "none"
    /\ ForwardRaised(self, sc2) = "none"
    /\ pc' = "running"
    /\ call' = [op |-> "forwards", before |-> pyr_size,
                threads |->
                    <<[scales |-> sc1, writes |-> SizeWrites(self, id, sc1),
                       at |-> 0],
                      [scales |-> sc2, writes |-> SizeWrites(self, id, sc2),
                       at |-> 0]>>]
    /\ x_id' = id
    /\ UNCHANGED <<args, self, pyr_size, pyr_coeffs>>

\* the call t in flight makes its next write to self.pyr_size
WriteStep(t) ==
    /\ pc = "running"
    /\ t \in DOMAIN call.threads
    /\ call.threads[t].at < Len(call.threads[t].writes)
    /\ LET w == call.threads[t].writes[call.threads[t].at + 1]
       IN  pyr_size' = SizeWrite(pyr_size, w[1], w[2])
    /\ call' = [call EXCEPT !.threads[t].at = @ + 1]
    /\ UNCHANGED <<pc, args, self, pyr_coeffs, x_id>>

InitInterleave == InitWith(InterleaveCtorArgs)

NextInterleave ==
    \/ Construct
    \/ \E id \in Images, sc \in InterleaveScalesArgs : Forward(id, sc)
    \/ \E id \in Images, sc1 \in InterleaveScalesArgs,
          sc2 \in InterleaveScalesArgs : BeginForwards(id, sc1, sc2)
    \/ \E t \in 1..2 : WriteStep(t)

SpecInterleave == InitInterleave /\ [][NextInterleave]_vars

---------------------------------------------------------------------------
(* Claims *)

\* recon_pyr has just returned the reconstruction from every key of the
\* whole mapping forward returned
FullRecon ==
    /\ call.op = "recon_pyr" /\ call.raised = "none"
    /\ call.drop = 0 /\ call.levels = AllLevels /\ call.bands = AllBands

\* two tensors hold the same values
SameValues(a, b) == a.shape = b.shape /\ a.dft = b.dft

\* C1: recon_pyr(forward(x, [])) with levels and bands 'all' equals x, for
\* real and complex pyramids, with and without downsampling.
C1_RoundTrip == FullRecon => SameValues(call.out, Image(x_id, self))

\* C1 for complex pyramids only
C1_RoundTripComplex ==
    (FullRecon /\ self.is_complex) => SameValues(call.out, Image(x_id, self))

\* a real pyramid's reconstruction that differs from the image
C1_RealDiffers ==
    FullRecon /\ ~self.is_complex /\ ~SameValues(call.out, Image(x_id, self))

\* forward has just returned
ForwardReturned == call.op = "forward" /\ call.raised = "none"

\* the scale identifiers a scales argument asks for: all of them when empty
Requested(obj, sc) ==
    IF sc.items = <<>>
    THEN {IntId(i) : i \in 0..(obj.num_scales - 1)}
         \cup {ResidualHighpassId, ResidualLowpassId}
    ELSE Range(sc.items)

RECURSIVE ScaleKeysFrom(_, _, _)
\* (s, 0), .., (s, num_orientations-1) for the requested scales s >= i,
\* smallest s first
ScaleKeysFrom(i, req, obj) ==
    IF i >= obj.num_scales THEN <<>>
    ELSE (IF IntId(i) \in req
          THEN [b \in 1..obj.num_orientations |-> BandKey(i, b - 1)]
          ELSE <<>>)
         \o ScaleKeysFrom(i + 1, req, obj)

ExpectedKeys(obj, sc) ==
    LET req == Requested(obj, sc)
    IN  (IF ResidualHighpassId \in req THEN <<ResidualHighpass>> ELSE <<>>)
        \o ScaleKeysFrom(0, req, obj)
        \o (IF ResidualLowpassId \in req THEN <<ResidualLowpass>> ELSE <<>>)

C3_SizesRecorded ==
    ForwardReturned =>
        \A i \in DOMAIN pyr_coeffs :
            /\ HasKey(pyr_size, pyr_coeffs[i][1])
            /\ Get(pyr_size, pyr_coeffs[i][1]) = pyr_coeffs[i][2].shape

\* a downsampled pyramid's forward has recorded three different sizes
C3_DownsampledSizes ==
    /\ ForwardReturned
    /\ HasKey(pyr_size, BandKey(0, 0)) /\ Get(pyr_size, BandKey(0, 0)) = <<16, 16>>
    /\ HasKey(pyr_size, BandKey(1, 0)) /\ Get(pyr_size, BandKey(1, 0)) = <<8, 8>>
    /\ HasKey(pyr_coeffs, ResidualLowpass)
    /\ Get(pyr_size, ResidualLowpass) = <<4, 4>>

\* C4: after any sequence of forward calls, pyr_size has exactly the keys of
\* the mapping the most recent forward returned.
C4_NoStaleKeys == ForwardReturned => KeySet(pyr_size) = KeySet(pyr_coeffs)

\* pyr_size holds a key that the mapping forward has just returned lacks
C4_StaleKey ==
    ForwardReturned /\ \E k \in KeySet(pyr_size) : ~HasKey(pyr_coeffs, k)

\* a scales argument forward is to reject: not a list, or a list with an
\* integer outside [0, num_scales-1]
BadScales(obj, sc) ==
    \/ ~sc.list
    \/ \E j \in DOMAIN sc.items :
          /\ IsInt(sc.items[j])
          /\ (sc.items[j][2] < 0 \/ sc.items[j][2] > obj.num_scales - 1)

\* C5: forward rejects a scales argument that is not a list or that holds an
\* integer outside [0, num_scales-1], and a rejected call leaves pyr_size,
\* the masks and every other attribute as they were.
C5_RejectsBadScales ==
    /\ [](pc = "built" =>
            \A sc \in ScalesArgs :
                BadScales(self, sc) => ForwardRaised(self, sc) # "none")
    /\ [][(call'.op = "forward" /\ call'.raised # "none")
            => (pyr_size' = pyr_size /\ self' = self)]_vars

\* forward has rejected an out-of-range scale on an instance whose size
\* table was already filled
C5_RejectedAfterForward ==
    /\ call.op = "forward" /\ call.raised = "AssertionError"
    /\ pyr_size # <<>>

\* the keys recon_pyr is to find in the mapping it is given
RequiredKeys(obj) ==
    {ResidualHighpass, ResidualLowpass}
    \cup {BandKey(s, b) : s \in 0..(obj.num_scales - 1),
                          b \in 0..(obj.num_orientations - 1)}

Lacking(obj, coeffs) == \E k \in RequiredKeys(obj) : ~HasKey(coeffs, k)

\* C6: recon_pyr raises its "must include all scales" error whenever the
\* mapping lacks 'residual_highpass', 'residual_lowpass' or any (s, b),
\* whatever levels and bands are asked for, and never raises it for a mapping
\* that has all of those keys.
C6_CompletenessCheck ==
    pc = "built" =>
        \A drop \in 0..Len(pyr_coeffs), a \in ReconArgs :
            LET coeffs == Without(pyr_coeffs, drop)
                raised == ReconPyrRaised(self, pyr_size, coeffs, a[1], a[2])
            IN  Lacking(self, coeffs) <=> raised = "Exception"

\* recon_pyr has raised for the whole mapping without one entry, and raises
\* for it without 'residual_lowpass' when only scale 0 is asked for
C6_UnusedKeyMissing ==
    /\ call.op = "recon_pyr" /\ call.raised = "Exception" /\ call.drop # 0
    /\ ~Lacking(self, pyr_coeffs)
    /\ ReconPyrRaised(self, pyr_size, Without(pyr_coeffs, Len(pyr_coeffs)),
                      ListLevels(<<IntId(0)>>), AllBands) = "Exception"

\* levels holds an integer outside [0, num_scales-1]
LevelOutOfRange(obj, levels) ==
    \E j \in DOMAIN levels.items :
        /\ IsInt(levels.items[j])
        /\ (levels.items[j][2] < 0 \/ levels.items[j][2] > obj.num_scales - 1)

\* levels holds an identifier that is neither an integer nor a residual's name
LevelUnknown(levels) ==
    \E j \in DOMAIN levels.items :
        levels.items[j] \notin {ResidualHighpassId, ResidualLowpassId}
        /\ ~IsInt(levels.items[j])

\* bands holds an integer outside [0, num_orientations-1]
BandOutOfRange(obj, bands) ==
    \E j \in DOMAIN bands.items :
        bands.items[j] < 0 \/ bands.items[j] > obj.num_orientations - 1

\* C7: recon_pyr of a whole mapping raises when levels or bands holds an
\* integer out of range, and when levels holds an identifier that is not a
\* scale integer, 'residual_highpass' or 'residual_lowpass'.
C7_HardFailure ==
    (pc = "built" /\ ~Lacking(self, pyr_coeffs)) =>
        \A a \in ReconArgs :
            (\/ LevelOutOfRange(self, a[1])
             \/ LevelUnknown(a[1])
             \/ BandOutOfRange(self, a[2]))
            => ReconPyrRaised(self, pyr_size, pyr_coeffs, a[1], a[2]) # "none"

\* C7 for the integers only
C7_OutOfRangeRaises ==
    (pc = "built" /\ ~Lacking(self, pyr_coeffs)) =>
        \A a \in ReconArgs :
            (LevelOutOfRange(self, a[1]) \/ BandOutOfRange(self, a[2]))
            => ReconPyrRaised(self, pyr_size, pyr_coeffs, a[1], a[2]) # "none"

\* recon_pyr has returned a reconstruction from no key at all for a level
\* name it does not know
C7_UnknownLevelIgnored ==
    /\ call.op = "recon_pyr" /\ call.raised = "none"
    /\ call.levels = ListLevels(<<OtherStringId>>)
    /\ call.keys = <<>>

\* m is floor(log2(min(H, W))) - 2
IsMaxHeight(m, image_shape) ==
    LET d == Min(image_shape[1], image_shape[2])
    IN  Pow2(m + 2) <= d /\ d < Pow2(m + 3)

\* C8: with max = floor(log2(min(H, W))) - 2, height 'auto' gives num_scales
\* = max, an integer height <= max gives num_scales = height, an integer
\* height > max makes the construction raise, and every pyramid that was
\* built has num_scales <= max.
C8_HeightLimit ==
    pc # "new" =>
        \E m \in -2..8 :
            /\ IsMaxHeight(m, args.image_shape)
            /\ (args.height[1] = "auto" =>
                    pc = "built" /\ self.num_scales = m)
            /\ (args.height[1] = "int" /\ args.height[2] <= m =>
                    pc = "built" /\ self.num_scales = args.height[2])
            /\ (args.height[1] = "int" /\ args.height[2] > m =>
                    pc = "failed" /\ self = NoPyramid)
            /\ (pc = "built" => self.num_scales <= m)

\* a 16x16 pyramid of height 3 has been turned away
C8_OneTooHigh ==
    /\ pc = "failed" /\ call.raised = "Exception"
    /\ args.image_shape = <<16, 16>> /\ args.height = <<"int", 3>>

\* C9: the order argument never makes the construction fail; the pyramid has
\* order = min(max(order, 1), 15) and num_orientations = order + 1 in 2..16,
\* every scale has num_orientations forward and reconstruction angular
\* masks, and a twidth <= 0 is replaced by 1.
C9_OrderAndTwidth ==
    /\ pc = "failed" =>
           args.height[1] = "int"
           /\ \E m \in -2..(args.height[2] - 1) :
                  IsMaxHeight(m, args.image_shape)
    /\ pc = "built" =>
        /\ self.order = (IF args.order < 1 THEN 1
                         ELSE IF args.order > 15 THEN 15 ELSE args.order)
        /\ self.num_orientations = self.order + 1
        /\ self.num_orientations \in 2..16
        /\ Len(self._anglemasks) = self.num_scales
        /\ Len(self._anglemasks_recon) = self.num_scales
        /\ \A i \in 1..self.num_scales :
               /\ Len(self._anglemasks[i]) = self.num_orientations
               /\ Len(self._anglemasks_recon[i]) = self.num_orientations
        /\ self.twidth = (IF args.twidth <= 0 THEN 1 ELSE args.twidth)

\* order -2 and twidth -1 were asked for and a pyramid with scales was built
C9_NegativeOrderBuilt ==
    /\ pc = "built" /\ args.order = -2 /\ args.twidth = -1
    /\ self.num_scales >= 1 /\ self.order = 1 /\ self.twidth = 1

RECURSIVE Halved(_, _)
\* shape after k halvings, each rounded up
Halved(shape, k) ==
    IF k <= 0 THEN shape
    ELSE Halved(<<CeilDiv(shape[1], 2), CeilDiv(shape[2], 2)>>, k - 1)

ShapeOf(k) == Get(pyr_coeffs, k).shape

\* C10: with downsample=True 'residual_highpass' and the bands of scale 0
\* have the image's size, the bands of scale s+1 have the size of scale s
\* halved and rounded up, and 'residual_lowpass' has the size left after
\* num_scales halvings; with downsample=False every band has the image's
\* size.
C10_BandShapes ==
    ForwardReturned =>
        LET n  == self.num_scales
            no == self.num_orientations
            hw == self.image_shape
        IN  /\ ShapeOf(ResidualHighpass) = hw
            /\ \A b \in 0..(no - 1) : n >= 1 => ShapeOf(BandKey(0, b)) = hw
            /\ \A s \in 0..(n - 2), b \in 0..(no - 1) :
                   ShapeOf(BandKey(s + 1, b)) =
                       (IF self.downsample
                        THEN Halved(ShapeOf(BandKey(s, b)), 1)
                        ELSE hw)
            /\ ShapeOf(ResidualLowpass) =
                   (IF self.downsample THEN Halved(hw, n) ELSE hw)

\* a 64x64 image through a downsampling pyramid of height 3: bands of 64,
\* 32 and 16, and an 8x8 low-pass residual
C10_SixtyFour ==
    /\ ForwardReturned /\ self.downsample
    /\ self.image_shape = <<64, 64>> /\ self.num_scales = 3
    /\ ShapeOf(BandKey(0, 0)) = <<64, 64>>
    /\ ShapeOf(BandKey(1, 0)) = <<32, 32>>
    /\ ShapeOf(BandKey(2, 0)) = <<16, 16>>
    /\ ShapeOf(ResidualLowpass) = <<8, 8>>

\* the mapping c the latest forward returned for an image of shape x_shape,
\* channel by channel
CoeffsByChannel(coeffs, x_shape) ==
    Tabulate([i \in DOMAIN coeffs |->
        <<coeffs[i][1], CoeffChannels(coeffs[i][1], x_shape)>>])

\* C11: with downsample=False, after any forward calls and for any batch and
\* channel counts, convert_pyr_to_tensor of what the latest forward returned
\* succeeds, and convert_tensor_to_pyr of its result returns the same keys in
\* the same order, each with the same value.
C11_ConvertRoundTrip ==
    /\ (call.op = "convert_pyr_to_tensor" /\ ~self.downsample
        /\ pyr_coeffs # <<>>) => call.raised = "none"
    /\ call.op = "convert_tensor_to_pyr" =>
           /\ call.raised = "none"
           /\ call.out = CoeffsByChannel(pyr_coeffs, call.x_shape)

\* C11 for one channel, when pyr_size holds the keys of the latest forward in
\* its order and the mapping has not a single residual after its bands
C11_RoundTripOfFreshSingleChannel ==
    (/\ call.op = "convert_tensor_to_pyr"
     /\ call.x_shape[2] = 1
     /\ Keys(pyr_size) = Keys(pyr_coeffs)
     /\ ConvertKeyOrder(pyr_coeffs) = Keys(pyr_coeffs))
    => /\ call.raised = "none"
       /\ call.out = CoeffsByChannel(pyr_coeffs, call.x_shape)

\* the round trip of the whole pyramid of a one-channel image has returned
\* the keys in another order, after an earlier forward of scale 0 alone
C11_KeysOutOfOrder ==
    /\ call.op = "convert_tensor_to_pyr" /\ call.raised = "none"
    /\ call.x_shape = <<1, 1>>
    /\ KeySet(pyr_size) = KeySet(pyr_coeffs)
    /\ Keys(call.out) # Keys(pyr_coeffs)


\* the five entry points of the metrics
MetricOps == {"ssim", "ssim_map", "ms_ssim", "nlpd", "nspd"}

\* an input is not 4-D, the heights or widths differ, or a batch or channel
\* count differs while neither is 1
BadShapes(s1, s2) ==
    \/ Len(s1) # 4
    \/ Len(s2) # 4
    \/ s1[3] # s2[3]
    \/ s1[4] # s2[4]
    \/ s1[1] # s2[1] /\ 1 \notin {s1[1], s2[1]}
    \/ s1[2] # s2[2] /\ 1 \notin {s1[2], s2[2]}

\* C12: each of ssim, ssim_map, ms_ssim, nlpd and nspd raises when an input
\* is not 4-D, when the (H, W) of the two differ, or when a batch or channel
\* count differs and neither is 1; on any other pair of shapes the
\* validation raises nothing (what nspd raises then comes from building
\* its pyramid), and more than one channel only warns.
C12_ShapeValidation ==
    call.op \in MetricOps =>
        LET s1 == args.img1.shape
            s2 == args.img2.shape
        IN  IF BadShapes(s1, s2) THEN call.raised # "none"
            ELSE /\ call.raised # "none" =>
                        call.op = "nspd" /\ "at" \in DOMAIN call
                 /\ (call.raised = "none" /\ (s1[2] > 1 \/ s2[2] > 1)) =>
                        call.warned

\* a batch of 1 against a batch of 3, and 3 channels against 1: accepted
\* with the warning
C12_BroadcastAccepted ==
    /\ call.op \in MetricOps
    /\ call.raised = "none"
    /\ call.warned
    /\ args.img1.shape = <<1, 3, 2, 2>>
    /\ args.img2.shape = <<3, 1, 2, 2>>

\* ssim was called on a pair of 2x2 images whose values are followed
SsimFollowed ==
    /\ call.op = "ssim"
    /\ call.raised = "none"
    /\ Followed(args.img1, args.img2, "pixels")

\* -1 <= q <= 1
InUnitRange(q) ==
    /\ q.kind = "num"
    /\ ~QLess(q, QInt(-1))
    /\ ~QLess(QInt(1), q)

\* C13: ssim(x, x) is 1 for every valid image x, a constant one included,
\* for every dynamic_range and pad mode, weighted or not; and every ssim
\* value lies in [-1, 1].
C13_SsimIdentity ==
    SsimFollowed =>
        /\ args.img1 = args.img2 => call.out = QInt(1)
        /\ call.out.kind # "inexact" => InUnitRange(call.out)

\* the unweighted part of C13: identity and range
C13_UnweightedIdentity ==
    (SsimFollowed /\ ~args.weighted) =>
        /\ args.img1 = args.img2 => call.out = QInt(1)
        /\ call.out.kind # "inexact" => InUnitRange(call.out)

\* the weighted SSIM of the all-zero image with itself is 0/0
C13_WeightedConstantIsNaN ==
    /\ SsimFollowed
    /\ args.weighted
    /\ args.img1 = args.img2
    /\ args.img1 = PixelImage(2, 2, <<0, 0, 0, 0>>)
    /\ call.out = QNaN

\* a negative SSIM value
C13_NegativeSsim ==
    /\ SsimFollowed
    /\ call.out.kind = "num"
    /\ QLess(call.out, QInt(0))

\* C13 wherever the weights do not all vanish
C13_IdentityUnlessNaN ==
    (SsimFollowed /\ call.out # QNaN) =>
        /\ args.img1 = args.img2 => call.out = QInt(1)
        /\ call.out.kind # "inexact" => InUnitRange(call.out)

\* ms_ssim was called with a single power factor on two 2x2 images whose
\* values are followed
MsSsimSingleScale ==
    /\ call.op = "ms_ssim"
    /\ call.raised = "none"
    /\ Followed(args.img1, args.img2, "pixels")
    /\ Len(args.power_factors) = 1

\* the unweighted, unpadded ssim of the arguments
PlainSsim ==
    SsimOf(args.img1, args.img2, FALSE, args.dynamic_range, "False").out

\* C14 as stated: with power_factors = [p], ms_ssim is the unweighted,
\* unpadded ssim raised to the power p, with no downsampling step, also when
\* the mean SSIM value is negative.
C14_SingleScaleIsSsimPower ==
    MsSsimSingleScale =>
        /\ call.downsampled = 0
        /\ call.out = QPow(PlainSsim, args.power_factors[1])

\* C14: with power_factors = [p], ms_ssim makes no downsampling step and is
\* the unweighted, unpadded ssim raised to the power p when that ssim is
\* not negative, and 0 raised to the power p when it is negative.
C14_SingleScaleIsClampedSsimPower ==
    MsSsimSingleScale =>
        /\ call.downsampled = 0
        /\ call.out = IF PlainSsim.kind = "num" /\ QLess(PlainSsim, QInt(0))
                      THEN QPow(QInt(0), args.power_factors[1])
                      ELSE QPow(PlainSsim, args.power_factors[1])

\* a negative mean SSIM, squared by the claim, 0 in the code
C14_NegativeSsimGivesZero ==
    /\ MsSsimSingleScale
    /\ args.power_factors = <<2>>
    /\ QLess(PlainSsim, QInt(0))
    /\ call.out = QInt(0)

\* nlpd or nspd returned a distance that is followed
DistanceFollowed ==
    /\ call.op \in {"nlpd", "nspd"}
    /\ call.raised = "none"
    /\ call.out # "not followed"

\* C15: nlpd(x, x) and nspd(x, x) are 0 up to the stabilizer for every valid
\* x, the all-zero image and any image whose low-pass residual has a zero
\* coefficient included, and both distances are non-negative and finite for
\* every valid pair.
C15_DistanceIdentity ==
    DistanceFollowed =>
        /\ args.img1 = args.img2 => call.out = "eps"
        /\ call.out \in {"eps", "more"}

\* the same of every term of nspd but the one of 'residual_lowpass'
C15_BandTermsIdentity ==
    (DistanceFollowed /\ call.op = "nspd") =>
        \A i \in DOMAIN call.terms :
            ~call.terms[i].normalized =>
                /\ args.img1 = args.img2 => call.terms[i].term = "eps"
                /\ call.terms[i].term \in {"eps", "more"}

\* C15 for every pair of images one of which has no zero in its low-pass
\* residual
C15_IdentityOffZero ==
    (DistanceFollowed /\ ~(call.op = "nspd" /\ args.img1.kind = "zero"
                                            /\ args.img2.kind = "zero")) =>
        /\ args.img1 = args.img2 => call.out = "eps"
        /\ call.out \in {"eps", "more"}

\* nspd of the all-zero image with itself: the term of 'residual_lowpass'
\* is 0/0 and the distance is NaN
C15_NspdOfZeroIsNaN ==
    /\ call.op = "nspd"
    /\ call.raised = "none"
    /\ args.img1 = PyramidImage(<<1, 1, 128, 128>>, "zero")
    /\ args.img2 = args.img1
    /\ \E i \in DOMAIN call.terms :
            /\ call.terms[i].key = ResidualLowpass
            /\ call.terms[i].term = "nan"
    /\ call.out = "nan"

\* the share of the frequency r in the sum of the squared magnitudes of the
\* entries of the tensor t (Parseval: the squared magnitude of the entry of
\* the unnormalised transform, over the number of entries)
EnergyAt(t, r) ==
    IF r \notin DOMAIN t.dft THEN Zero
    ELSE VMul(VAbs2(t.dft[r]), Real(1, t.shape[1] * t.shape[2], 1))

\* the share of the frequency q and its conjugate
PairEnergy(t, q) ==
    IF Conjugate(q) = q THEN EnergyAt(t, q)
    ELSE VAdd(EnergyAt(t, q), EnergyAt(t, Conjugate(q)))

RECURSIVE CoeffsEnergy(_, _, _)
\* the same, summed over the entries of coeffs from i on
CoeffsEnergy(coeffs, i, q) ==
    IF i > Len(coeffs) THEN Zero
    ELSE VAdd(PairEnergy(coeffs[i][2], q), CoeffsEnergy(coeffs, i + 1, q))

\* forward(x, []) returned
ForwardOfAll ==
    /\ call.op = "forward"
    /\ call.raised = "none"
    /\ call.scales = ListArg(<<>>)

\* C16: with tight_frame=True, real or complex, downsampled or not, the sum
\* over all keys of forward(x, []) of the squared magnitudes of the
\* coefficients equals the sum of the squared pixels of x; frequency by
\* frequency (a frequency taken with its conjugate).
C16_TightFrameEnergy ==
    (ForwardOfAll /\ args.tight_frame) =>
        \A q \in Samples(self) :
            /\ CoeffsEnergy(pyr_coeffs, 1, q) # NotExact
            /\ CoeffsEnergy(pyr_coeffs, 1, q) = PairEnergy(Image(x_id, self), q)

\* a complex, downsampled tight frame whose forward returned
C16_ComplexTightFrame ==
    /\ ForwardOfAll
    /\ args.tight_frame
    /\ self.is_complex
    /\ self.downsample
    /\ \E q \in Samples(self) :
            /\ q.kind = "diag"
            /\ PairEnergy(Image(x_id, self), q) \notin {Zero, NotExact}

\* without tight_frame the energies differ
C16_NotTightWithoutFlag ==
    /\ ForwardOfAll
    /\ ~args.tight_frame
    /\ \E q \in Samples(self) :
            CoeffsEnergy(pyr_coeffs, 1, q) # PairEnergy(Image(x_id, self), q)

\* every mask of the instance
AllMasks(obj) ==
    {obj.lo0mask, obj.hi0mask}
    \cup Range(obj._himasks) \cup Range(obj._lomasks)
    \cup UNION {Range(obj._anglemasks[i]) : i \in DOMAIN obj._anglemasks}
    \cup UNION {Range(obj._anglemasks_recon[i]) :
                    i \in DOMAIN obj._anglemasks_recon}

\* the number of scales, of masks per scale, and the crop indices
MaskLayout(obj) ==
    [num_scales |-> obj.num_scales,
     himasks |-> Len(obj._himasks),
     lomasks |-> Len(obj._lomasks),
     anglemasks |-> [i \in DOMAIN obj._anglemasks |-> Len(obj._anglemasks[i])],
     anglemasks_recon |->
        [i \in DOMAIN obj._anglemasks_recon |-> Len(obj._anglemasks_recon[i])],
     _loindices |-> obj._loindices]

\* after construction and any calls of to, all masks share one dtype and one
\* device; right after construction the dtype is float32
MasksAsAUnit ==
    pc = "built" =>
        /\ \A m1, m2 \in AllMasks(self) :
                m1.dtype = m2.dtype /\ m1.device = m2.device
        /\ call.op = "__init__" =>
                \A m \in AllMasks(self) : m.dtype = "float32"

\* a step of to changes neither the number of scales, nor the number of
\* masks per scale, nor the crop indices
ToKeepsLayout ==
    (pc = "built" /\ call'.op = "to") => MaskLayout(self') = MaskLayout(self)

\* C17: the masks move as a unit: after construction and any calls of
\* to(...) all masks have the same dtype and device, float32 right after
\* construction; to changes neither the number of scales, nor the number of
\* masks per scale, nor the crop indices.
C17_MasksMoveAsAUnit == []MasksAsAUnit /\ [][ToKeepsLayout]_vars

\* the masks after to(torch.float64) and to('cuda:0')
C17_MovedAndCast ==
    /\ call.op = "to"
    /\ self.num_scales >= 1
    /\ \A m \in AllMasks(self) : m.dtype = "float64" /\ m.device = "cuda:0"

\* the masks, the crop indices and the two grids of the instance
InstanceFrame(obj) ==
    [lo0mask |-> obj.lo0mask, hi0mask |-> obj.hi0mask,
     _himasks |-> obj._himasks, _lomasks |-> obj._lomasks,
     _anglemasks |-> obj._anglemasks,
     _anglemasks_recon |-> obj._anglemasks_recon,
     _loindices |-> obj._loindices,
     angle |-> obj.angle, log_rad |-> obj.log_rad]

\* a step of forward or recon_pyr leaves the masks, the crop indices and the
\* grids alone; recon_pyr also the size table and the mapping it is given;
\* forward changes nothing of the instance but the size table
FrameStep ==
    (pc = "built" /\ call'.op \in {"forward", "recon_pyr"}) =>
        /\ InstanceFrame(self') = InstanceFrame(self)
        /\ call'.op = "recon_pyr" =>
                pyr_size' = pyr_size /\ pyr_coeffs' = pyr_coeffs
        /\ call'.op = "forward" => self' = self

\* C18: neither forward nor recon_pyr changes any mask, _loindices, or the
\* angle and log_rad grids; recon_pyr also leaves pyr_size and the mapping
\* passed to it unchanged; the only instance state forward changes is the
\* size table.
C18_Frame == [][FrameStep]_vars

\* recon_pyr returned for a downsampled pyramid whose forward had filled the
\* size table
C18_ReconAfterForward ==
    /\ call.op = "recon_pyr"
    /\ call.raised = "none"
    /\ self.downsample
    /\ self.num_scales >= 1
    /\ pyr_size # <<>>
    /\ ForwardLocalGrid(self) # self.log_rad

\* steer_coeffs returned its two dictionaries
SteerReturned == call.op = "steer_coeffs" /\ call.raised = "none"

\* C19: steer_coeffs returns two dictionaries with the same key set, of
\* num_scales * len(angles) keys each, none of them a residual key.
C19_SteerKeys ==
    SteerReturned =>
        /\ KeySet(call.resteered_coeffs) = KeySet(call.resteering_weights)
        /\ \A dict \in {call.resteered_coeffs, call.resteering_weights} :
                /\ Cardinality(KeySet(dict)) = self.num_scales * Len(call.angles)
                /\ Len(dict) = self.num_scales * Len(call.angles)
                /\ \A k \in KeySet(dict) : IsBandKey(k)

\* the number of keys and the absence of residual keys alone
C19_SteerKeyCounts ==
    SteerReturned =>
        \A dict \in {call.resteered_coeffs, call.resteering_weights} :
            /\ Cardinality(KeySet(dict)) = self.num_scales * Len(call.angles)
            /\ Len(dict) = self.num_scales * Len(call.angles)
            /\ \A k \in KeySet(dict) : IsBandKey(k)

\* one angle: the weights are under (0, 0), the steered coefficient under
\* (0, num_orientations)
C19_KeysShifted ==
    /\ SteerReturned
    /\ Len(call.angles) = 1
    /\ BandKey(0, 0) \in KeySet(call.resteering_weights)
    /\ BandKey(0, 0) \notin KeySet(call.resteered_coeffs)
    /\ BandKey(0, self.num_orientations) \in KeySet(call.resteered_coeffs)

\* nspd returned a distance whose terms are followed
NspdFollowed ==
    /\ call.op = "nspd"
    /\ call.raised = "none"
    /\ call.out # "not followed"

\* the 20 band keys of 5 scales and 4 orientations, and 'residual_lowpass'
NspdKeys ==
    {BandKey(s, b) : s \in 0..4, b \in 0..3} \cup {ResidualLowpass}

ConvertReturned ==
    call.op = "convert_pyr_to_tensor" /\ call.raised = "none"

\* C21: for a pyramid with downsample=False and the mapping c returned by
\* forward with any scales argument, the channels of
\* convert_pyr_to_tensor(c) appear in the order of the keys of c.
C21_ChannelsInKeyOrder ==
    ConvertReturned =>
        call.out.channels = CatChannels(Keys(pyr_coeffs), call.x_shape)

\* C21 for mappings that do not end in a lone residual after bands
C21_ChannelsInKeyOrderOfFull ==
    (ConvertReturned /\ ConvertKeyOrder(pyr_coeffs) = Keys(pyr_coeffs)) =>
        call.out.channels = CatChannels(Keys(pyr_coeffs), call.x_shape)

\* one scale and 'residual_lowpass': the residual is the last key of c and
\* the first channel of the tensor
C21_LoneResidualFirst ==
    /\ ConvertReturned
    /\ Len(pyr_coeffs) >= 2
    /\ pyr_coeffs[Len(pyr_coeffs)][1] = ResidualLowpass
    /\ IsBandKey(pyr_coeffs[1][1])
    /\ call.out.channels[1][1] = ResidualLowpass

\* the list l backwards
Backwards(l) == Tabulate([i \in DOMAIN l |-> l[Len(l) + 1 - i]])

\* C22: what forward returns depends only on the set of the requested scale
\* identifiers. The same identifiers in the opposite order, or each of them
\* twice, give the same keys in the same order with the same values, and
\* every key of forward(x, S) for a non-empty S has the value it has in
\* forward(x, []).
C22_OnlyTheSetOfScales ==
    (ForwardReturned /\ Exact(self)) =>
        \A x \in {Image(x_id, self)} :
            /\ call.scales.items # <<>> =>
                /\ ForwardCoeffs(self, x, ListArg(Backwards(call.scales.items)))
                        = pyr_coeffs
                /\ ForwardCoeffs(self, x,
                        ListArg(call.scales.items \o call.scales.items))
                        = pyr_coeffs
            /\ \A full \in {ForwardCoeffs(self, x, ListArg(<<>>))} :
                    \A i \in DOMAIN pyr_coeffs :
                        /\ HasKey(full, pyr_coeffs[i][1])
                        /\ Get(full, pyr_coeffs[i][1]) = pyr_coeffs[i][2]

\* forward(x, [1, 0]) has returned the four bands of scale 0 and then the
\* four of scale 1, with values that differ between the two scales
C22_DescendingRequest ==
    /\ ForwardReturned /\ Exact(self)
    /\ call.scales = ListArg(<<IntId(1), IntId(0)>>)
    /\ Keys(pyr_coeffs) = <<BandKey(0, 0), BandKey(0, 1), BandKey(0, 2),
                            BandKey(0, 3), BandKey(1, 0), BandKey(1, 1),
                            BandKey(1, 2), BandKey(1, 3)>>
    /\ pyr_coeffs[1][2] # pyr_coeffs[5][2]

ReconGivenReturned ==
    /\ call.op = "recon_pyr" /\ call.raised = "none" /\ "given" \in DOMAIN call
    /\ call.levels = AllLevels /\ call.bands = AllBands

\* every key of a whole coefficient mapping of the pyramid obj
WholeKeys(obj) ==
    {ResidualHighpass, ResidualLowpass}
    \cup {BandKey(s, b) : s \in 0..(obj.num_scales - 1),
                          b \in 0..(obj.num_orientations - 1)}

\* C23: with levels='all' and bands='all', recon_pyr of a whole mapping
\* reconstructs from 'residual_highpass', every (s, b) and
\* 'residual_lowpass', whatever forward calls were made on the instance
\* before.
C23_KeysFromMapping ==
    ReconGivenReturned => Range(call.keys) = WholeKeys(self)

\* what the keys are: the bands, and each residual when the instance's
\* pyr_size has it
C23_KeysFromSizeTable ==
    ReconGivenReturned =>
        Range(call.keys) =
            {k \in WholeKeys(self) : IsBandKey(k) \/ HasKey(pyr_size, k)}

\* recon_pyr of a whole mapping on an instance that never ran forward has
\* left both residuals out
C23_FreshInstanceDropsResiduals ==
    /\ ReconGivenReturned
    /\ pyr_size = <<>>
    /\ ResidualHighpass \notin Range(call.keys)
    /\ ResidualLowpass \notin Range(call.keys)
    /\ call.out # Image(call.given, self)

Built == pc = "built"

\* C24: with downsample=True the crop bounds of every scale are a centred
\* sub-rectangle of the spectrum they crop, of whatever size d (even or odd):
\* on each axis 0 <= lostart <= loend <= d, loend - lostart = ceil(d/2), and
\* the centre floor(d/2) of the spectrum is the centre of the crop,
\* floor(d/2) - lostart = floor((loend - lostart)/2).
C24_CentredCrop ==
    (Built /\ self.downsample) =>
        \A i \in 0..(self.num_scales - 1), ax \in {1, 2} :
            LET d       == LoDims(i, self.image_shape, TRUE)[ax]
                lostart == self._loindices[i + 1].lostart[ax]
                loend   == self._loindices[i + 1].loend[ax]
            IN  /\ 0 <= lostart /\ lostart <= loend /\ loend <= d
                /\ loend - lostart = CeilDiv(d, 2)
                /\ (d \div 2) - lostart = (loend - lostart) \div 2

\* a 21x16 image: rows 5..15 of 21 and then 2..7 of 11, columns 4..11 of 16
\* and then 2..5 of 8
C24_OddAndEven ==
    /\ Built /\ self.downsample
    /\ self.image_shape = <<21, 16>> /\ self.num_scales = 2
    /\ self._loindices[1] = [lostart |-> <<5, 4>>, loend |-> <<16, 12>>]
    /\ self._loindices[2] = [lostart |-> <<2, 2>>, loend |-> <<8, 6>>]

Upsampled == call.op \in {"upsample_convolve", "upsample_blur"}

\* the size upsampling by 2 gives with the parities odd
UpsampledSize(x, odd) == <<2 * x[1] - odd[1], 2 * x[2] - odd[2]>>

\* downsampling by 2 and then upsample_blur with the parities of the size
\* downsampled
RoundTrip ==
    /\ call.op = "upsample_blur"
    /\ call.after.op = "blur_downsample" /\ call.after.n_scales = 1
    /\ call.after.raised = "none"
    /\ call.odd = <<args.shape[1] % 2, args.shape[2] % 2>>

\* C25 as stated: upsample_convolve and upsample_blur return, for every
\* input size, every filter size k >= 2 and every odd in {0,1} x {0,1}, an
\* output of size (2h - o_h) x (2w - o_w); blur_downsample followed by
\* upsample_blur with the original parities restores the original size.
C25_UpsampleSize ==
    /\ Upsampled =>
        /\ call.raised = "none"
        /\ call.out = UpsampledSize(call.x, call.odd)
    /\ RoundTrip => (call.raised = "none" /\ call.out = args.shape)

\* the reflect padding before the upsampling fits the axis of length n
PrepadFits(n, k, o) == (k \div 2) \div 2 < n /\ (k - o - (k \div 2)) \div 2 < n

\* C25, amended: upsample_convolve and upsample_blur return exactly when the
\* reflect padding of floor(floor(k/2)/2) and floor((k - o - floor(k/2))/2)
\* entries is smaller than the axis it pads, and raise otherwise; what they
\* return has size (2h - o_h) x (2w - o_w); when blur_downsample and then
\* upsample_blur with the original parities have both returned, the size is
\* the original one.
C25_UpsampleSizeWhenPadded ==
    /\ Upsampled =>
        /\ call.raised = "none" <=>
                (/\ PrepadFits(call.x[1], args.k, call.odd[1])
                 /\ PrepadFits(call.x[2], args.k, call.odd[2]))
        /\ call.raised = "none" => call.out = UpsampledSize(call.x, call.odd)
    /\ (RoundTrip /\ call.raised = "none") => call.out = args.shape

\* a 5x6 tensor blurred down to 3x3 with the 5x5 filter and up again with
\* odd = (1, 0) is 5x6
C25_FiveBySix ==
    /\ RoundTrip /\ call.raised = "none"
    /\ args.shape = <<5, 6>> /\ args.k = 5 /\ call.x = <<3, 3>>
    /\ call.out = <<5, 6>>

\* the shape of the spectrum of level s: that of the bands of scale s, or of
\* 'residual_lowpass' past the last scale
LevelShape(s) ==
    IF s < self.num_scales THEN ShapeOf(BandKey(s, 0)) ELSE ShapeOf(ResidualLowpass)

\* C26: the tables the constructor fills agree in shape with the bands of a
\* forward: for each scale s, _himasks[s], _anglemasks[s][b] and
\* _anglemasks_recon[s][b] have the size of band (s, b); _lomasks[s] has the
\* size loend_s - lostart_s, which is the size of the bands of scale s+1 (of
\* 'residual_lowpass' for the last scale), so that in _recon_levels the
\* spectrum of scale s+1 fits the slice it is written to; and the five
\* lists have num_scales entries.
C26_TablesAgree ==
    (Built /\ ForwardReturned) =>
        /\ Len(self._himasks) = self.num_scales
        /\ Len(self._lomasks) = self.num_scales
        /\ Len(self._anglemasks) = self.num_scales
        /\ Len(self._anglemasks_recon) = self.num_scales
        /\ Len(self._loindices) = self.num_scales
        /\ \A s \in 0..(self.num_scales - 1) :
            /\ \A b \in 0..(self.num_orientations - 1) :
                /\ self._himasks[s + 1].shape = ShapeOf(BandKey(s, b))
                /\ self._anglemasks[s + 1][b + 1].shape = ShapeOf(BandKey(s, b))
                /\ self._anglemasks_recon[s + 1][b + 1].shape
                        = ShapeOf(BandKey(s, b))
            /\ self._lomasks[s + 1].shape =
                    <<self._loindices[s + 1].loend[1]
                        - self._loindices[s + 1].lostart[1],
                      self._loindices[s + 1].loend[2]
                        - self._loindices[s + 1].lostart[2]>>
            /\ self._lomasks[s + 1].shape = LevelShape(s + 1)
            /\ CropShape(ShapeOf(BandKey(s, 0)), self._loindices[s + 1])
                    = LevelShape(s + 1)

\* a 21x16 image through a downsampling pyramid: low-pass masks of 11x8 and
\* 6x4, the sizes of the bands of scale 1 and of the low-pass residual
C26_TwentyOneBySixteen ==
    /\ Built /\ ForwardReturned /\ self.downsample
    /\ self.image_shape = <<21, 16>> /\ self.num_scales = 2
    /\ self._lomasks[1].shape = <<11, 8>> /\ ShapeOf(BandKey(1, 0)) = <<11, 8>>
    /\ self._lomasks[2].shape = <<6, 4>> /\ ShapeOf(ResidualLowpass) = <<6, 4>>

\* C27: the constants of forward and of the reconstruction cancel: for
\* every order in 1..15, (-i)^order * (+i)^order = 1, the instance's order
\* is one of these, and the 1/sqrt(2) forward applies to a band (exactly
\* when the pyramid is complex and a tight frame) times the factor
\* _recon_levels applies to it is 1.
C27_ConstantsCancel ==
    /\ \A order \in 1..15 : VMul(MinusIPow(order), IPow(order)) = One
    /\ Built =>
        /\ self.order \in 1..15
        /\ VMul(ForwardScale(self), ReconScale(self)) = One
        /\ ForwardScale(self) # One <=> (args.is_complex /\ args.tight_frame)
        /\ ReconScale(self) # One <=> (args.is_complex /\ args.tight_frame)

\* the bands of a complex tight frame, divided by sqrt(2) by forward and
\* multiplied by _recon_levels, have given the image back
C27_ComplexTightFrameRecon ==
    /\ call.op = "recon_pyr" /\ call.raised = "none"
    /\ call.levels = AllLevels /\ call.bands = AllBands
    /\ args.is_complex /\ args.tight_frame
    /\ ForwardScale(self) = Real(1, 2, 2) /\ ReconScale(self) = Real(1, 1, 2)
    /\ call.out = Image(x_id, self)

\* nspd was called with images that pass its checks of the shapes
NspdValidated ==
    /\ call.op = "nspd"
    /\ ShapeCheckRaised(args.img1.shape, args.img2.shape) = "none"

\* the shorter side of the images
ShorterSide == Min(args.img1.shape[3], args.img1.shape[4])

\* C28: nspd and normalized_steerable_pyramid always ask for a pyramid of 5
\* scales, so for images that pass the validation they succeed exactly when
\* floor(log2(min(H, W))) - 2 >= 5, that is min(H, W) >= 128; a smaller image
\* makes the constructor raise its 'Cannot build pyramid higher than' error.
C28_NspdNeedsFiveScales ==
    NspdValidated =>
        /\ NspdCtorArgs(args.img1).height = <<"int", 5>>
        /\ NspdCtorArgs(args.img2).height = <<"int", 5>>
        /\ MaxHt(<<args.img1.shape[3], args.img1.shape[4]>>) >= 5
                <=> ShorterSide >= 128
        /\ call.raised = "none" <=> ShorterSide >= 128
        /\ call.raised # "none" =>
                /\ call.raised = "Exception"
                /\ call.at = "Steerable_Pyramid_Freq"
                /\ NormalizedSteerablePyramid(args.img2).raised = "Exception"

\* nspd of two 127x128 images has raised in the constructor
C28_OneShortOfFiveScales ==
    /\ NspdValidated
    /\ args.img1.shape = <<1, 1, 127, 128>>
    /\ call.raised = "Exception" /\ call.at = "Steerable_Pyramid_Freq"

\* recon_pyr returned for the whole mapping of the latest forward
ReconReturned ==
    /\ call.op = "recon_pyr" /\ call.raised = "none"
    /\ "twidth" \in DOMAIN call /\ call.drop = 0

SizeOfKey(obj, k) ==
    IF k = ResidualHighpass THEN obj.image_shape
    ELSE IF k = ResidualLowpass
    THEN LoDims(obj.num_scales, obj.image_shape, obj.downsample)
    ELSE LoDims(k[2], obj.image_shape, obj.downsample)

\* both calls in flight have made all their writes
ForwardsEnded ==
    /\ pc = "running"
    /\ \A t \in DOMAIN call.threads :
            call.threads[t].at = Len(call.threads[t].writes)

RECURSIVE ApplyWrites(_, _, _)
\* the table after the writes w from entry i on, made one after the other
ApplyWrites(size, w, i) ==
    IF i > Len(w) THEN size
    ELSE ApplyWrites(DictSet(size, w[i][1], w[i][2]), w, i + 1)

\* the table after the two calls run one after the other, first then second
Serial(first, second) ==
    ApplyWrites(ApplyWrites(call.before, call.threads[first].writes, 1),
                call.threads[second].writes, 1)

\* every entry of the table holds the size that belongs to its key
SizesByKey ==
    Built \/ pc = "running" =>
        \A i \in DOMAIN pyr_size :
            pyr_size[i][2] = SizeOfKey(self, pyr_size[i][1])

\* interleaved calls end with the mapping of the serial runs
EndsAsSerial ==
    ForwardsEnded =>
        /\ Range(pyr_size) = Range(Serial(1, 2))
        /\ Range(pyr_size) = Range(Serial(2, 1))

\* a step keeps every entry of the table, with its value
EntriesKept ==
    \A i \in DOMAIN pyr_size :
        /\ HasKey(pyr_size', pyr_size[i][1])
        /\ Get(pyr_size', pyr_size[i][1]) = pyr_size[i][2]

\* C30: the writes to the size table are insensitive to history and to
\* interleaving in value: pyr_size[k] depends only on the configuration and
\* on k, an entry is only overwritten with the value it has and is never
\* removed, and two forward calls interleaved in any way end with the
\* key-to-size mapping of their serial runs; only the order of insertion
\* can differ.
C30_SizeWritesCommute ==
    /\ []SizesByKey
    /\ []EndsAsSerial
    /\ [][EntriesKept]_vars

\* forward(x, [0]) and forward(x, ['residual_highpass']) interleaved on a
\* fresh downsampling pyramid have ended with the keys in an order neither
\* serial run gives, and with the same sizes
C30_OrderDiffers ==
    /\ ForwardsEnded
    /\ self.downsample
    /\ call.before = <<>>
    /\ Keys(pyr_size) # Keys(Serial(1, 2))
    /\ Keys(pyr_size) # Keys(Serial(2, 1))
    /\ Range(pyr_size) = Range(Serial(1, 2))
    /\ Len(pyr_size) = 3

====
